---- MODULE Spec2Model ----
(***************************************************************************)
(* The edit pipeline of 2w2t.frontend: the input queue (enqueueEdit), the  *)
(* optimistic local write, the per-tile patch chain (queuePatch), the      *)
(* corrective fetch, the viewport fetch (refreshViewport, up to the merge  *)
(* of the fetched tiles) and the tilePatched handler, against a backend    *)
(* that follows the contract the README documents (a version mismatch is   *)
(* answered with 409).                                                     *)
(*                                                                         *)
(* One step of the model is one browser task together with the microtasks  *)
(* it leaves behind, except for the edit intents of the input queue, which *)
(* are run one per step (RunIntent) while no other task may start.         *)
(*                                                                         *)
(* The colour string of a tile is kept as its length alone, the colour of   *)
(* an overlay entry as whether it has one.  Left out of the state: the     *)
(* camera (the caret stays inside the viewport, so ensureCaretEdgeFollow   *)
(* returns false) and presence (sendTyping).                               *)
(*                                                                         *)
(* refreshViewport is modelled in two parts.  The specifications of the    *)
(* edit pipeline follow it up to the merge of the fetched tiles into the   *)
(* Tile Store; SpecView follows it to its end, through the joins and       *)
(* leaves of the hub subscriptions, with several invocations overlapping.  *)
(***************************************************************************)
EXTENDS Integers, Sequences, FiniteSets, TLC

\* ------------------------------------------------------------------ bounds
MaxIntents == 2
\* remote edits, viewport refreshes and network errors, together
MaxEnv == 2
\* cell coordinates given to tileForChar: -MaxCoord .. MaxCoord
MaxCoord == 33
\* the largest tile coordinate given to key
MaxTile == 2000000000
\* refreshViewport invocations of SpecView
MaxRefresh == 2
\* losses of the hub connection in SpecView
MaxDown == 1
\* motion samples (drag moves, touch moves, inertial steps) of SpecPan
MaxSamples == 2
\* drags of SpecFling
MaxDrags == 2
\* calls of tw2tTeleport in SpecTeleport
MaxTele == 2
\* typing while the network is down: keys typed, and requests that fail
MaxOutageKeys == 3
MaxOutageErr == 3
\* calls of sendTyping
MaxTyping == 3

\* keys pressed in the run with a throwing intent
MaxThrowKeys == 3

\* edits tried around the protected plaza
MaxProtectKeys == 2

Blank == " "

\* ------------------------------------------------------- program constants
TILE_W == 16
TILE_H == 16
TILE_CHARS == TILE_W * TILE_H

PROTECT == [x |-> -10, y |-> -10, w |-> 35, h |-> 16]

inProtected(cx, cy) ==
    /\ cx >= PROTECT.x /\ cx < PROTECT.x + PROTECT.w
    /\ cy >= PROTECT.y /\ cy < PROTECT.y + PROTECT.h

\* ------------------------------------------------------------ input sets
\* the cell a click places the caret on (in tile (1,0), below the protected
\* plaza; offset 7 * 16 + 8 = 120 of the tile)
ClickCells == {<<24, 7>>}
TypedChars == {"a"}
RemoteChar == "r"
RemoteOffsets == {0}
\* a cell of the neighbouring tile (2,0)
FarCells == {<<40, 7>>}

\* ---------------------------------------------------------------- strings
\* A JavaScript string of tile data is kept as its length and its characters
\* that are not blank: [len, cells], cells a function from the (0-based) index
\* of each non-blank character to that character.
Str(chars) ==
    [len |-> Len(chars),
     cells |-> [i \in {j \in 0..(Len(chars) - 1) : chars[j + 1] # Blank} |-> chars[i + 1]]]

CharAt(s, i) == IF i \in DOMAIN s.cells THEN s.cells[i] ELSE Blank

Min(a, b) == IF a < b THEN a ELSE b

\* s.slice(from, to), for 0 <= from and 0 <= to
Slice(s, from, to) ==
    LET f == Min(from, s.len)
        t == Min(to, s.len)
    IN  IF f >= t THEN [len |-> 0, cells |-> <<>>]
        ELSE [len |-> t - f,
              cells |-> [i \in {j - f : j \in {x \in DOMAIN s.cells : x >= f /\ x < t}} |->
                            s.cells[i + f]]]

SliceFrom(s, from) == Slice(s, from, s.len)

\* a + b
Concat(a, b) ==
    [len |-> a.len + b.len,
     cells |-> [i \in DOMAIN a.cells \cup {j + a.len : j \in DOMAIN b.cells} |->
                   IF i \in DOMAIN a.cells THEN a.cells[i] ELSE b.cells[i - a.len]]]

\* (mutant) the text is inserted, the characters it should replace are kept
Splice_Insert(data, offset, text) ==
    Concat(Concat(Slice(data, 0, offset), text), SliceFrom(data, offset))

\* t.data.slice(0, offset) + text + t.data.slice(offset + text.length)
Splice(data, offset, text) ==
    Concat(Concat(Slice(data, 0, offset), text), SliceFrom(data, offset + text.len))

\* ' '.repeat(TILE_CHARS)
BlankData == [len |-> TILE_CHARS, cells |-> <<>>]

Digit == <<"0", "1", "2", "3", "4", "5", "6", "7", "8", "9">>

RECURSIVE NatToString(_)
NatToString(n) ==
    IF n < 10 THEN <<Digit[n + 1]>>
    ELSE NatToString(n \div 10) \o <<Digit[(n % 10) + 1]>>

NumToString(n) == IF n < 0 THEN <<"-">> \o NatToString(-n) ELSE NatToString(n)

\* (mutant) the sign of the coordinates is dropped
key_NoSign(x, y) ==
    NatToString(IF x < 0 THEN -x ELSE x) \o <<":">> \o NatToString(IF y < 0 THEN -y ELSE y)

\* `${x}:${y}`
key(x, y) == NumToString(x) \o <<":">> \o NumToString(y)

\* the remainder of JavaScript's %, which takes the sign of the dividend
JsRem(a, b) == IF a >= 0 THEN a % b ELSE -((-a) % b)

\* (mutant) the tile is found by a division that rounds toward zero
tileForChar_Trunc(cx, cy) ==
    LET tdiv(a, b) == IF a >= 0 THEN a \div b ELSE -((-a) \div b)
        lx == (JsRem(cx, TILE_W) + TILE_W) % TILE_W
        ly == (JsRem(cy, TILE_H) + TILE_H) % TILE_H
    IN  [tx |-> tdiv(cx, TILE_W), ty |-> tdiv(cy, TILE_H),
         lx |-> lx, ly |-> ly, offset |-> ly * TILE_W + lx]

\* Math.floor(cx / TILE_W) is the floor division of integers
tileForChar(cx, cy) ==
    LET lx == (JsRem(cx, TILE_W) + TILE_W) % TILE_W
        ly == (JsRem(cy, TILE_H) + TILE_H) % TILE_H
    IN  [tx |-> cx \div TILE_W, ty |-> cy \div TILE_H,
         lx |-> lx, ly |-> ly, offset |-> ly * TILE_W + lx]

\* the tiles of the model: (1,0) is the tile of ClickCells, where the caret
\* stays within MaxIntents edits; (2,0) is its right neighbour, the tile of
\* FarCells
TileCoords == {<<1, 0>>, <<2, 0>>}
Keys == {key(c[1], c[2]) : c \in TileCoords}
CoordOf(k) == CHOOSE c \in TileCoords : key(c[1], c[2]) = k

\* the tiles other clients edit
RemoteKeys == {key(1, 0)}

NoObj == 0
NoCaret == [none |-> TRUE]
NoVersion == -1
\* a tile without a color string
NoColor == -1
\* the length of '0'.repeat(TILE_CHARS * 6)
COLOR_CHARS == TILE_CHARS * 6

VARIABLES
    tiles,        \* tiles.current: key -> index of the tile object, or NoObj
    objs,         \* the tile objects ever created: <<[x, y, data, color, version]>>
    optimistic,   \* optimistic.current: key -> (offset -> [ch, color])
    pending,      \* pending.current: key -> index of the last run, or 0
    patches,      \* the runs queuePatch has built, in submission order
    inputQueue,   \* the intents chained on inputQueue.current, not yet run
    caret,        \* caret.current
    fetches,      \* the fetchTiles calls that have not returned
    inFlight,     \* api.ts inFlight: id of the fetch it holds, or 0
    nextFetch,    \* ids given to fetchTiles calls so far
    server,       \* the backend's tiles: key -> [data, color, version, created]
    hubQ,         \* tilePatched events on their way to this client
    writes,       \* history: the cell writes of the intents, in order
    refCaret,     \* history: the caret of a sequential run of the intents
    refWrites,    \* history: the cell writes of that sequential run
    nIntents,     \* intents enqueued so far
    nEnv,         \* remote edits, viewport refreshes and network errors so far
    probe,        \* the arguments and the result of a pure function under check
    joined,       \* joined.current, in insertion order
    lastRect,     \* lastRect.current
    cam,          \* the tile rectangle of the camera: <<minX, maxX, minY, maxY>>
    refreshes,    \* the refreshViewport invocations, in the order they started
    hubState,     \* hub.state
    hubCalls,     \* the hub invocations sent and not yet completed, in order
    hubLog,       \* history: the hub invocations sent
    hubDowns,     \* losses of the hub connection so far
    fetchTimer,   \* fetchTimer.current is not null
    timers,       \* the timeouts of scheduleViewportFetch that have not fired
    nSamples,     \* motion samples handled so far
    camX,         \* cam.current.x, in millionths of a pixel
    dragging,     \* dragging.current
    samples,      \* samples.current: the pointer positions and their times
    velocity,     \* velocity.current.vx, in millionths of a pixel per ms
    isInertial,   \* isInertial.current
    rafs,         \* the step callbacks of startInertia waiting for a frame
    now,          \* performance.now(), counted from the start of the drag
    frameMs,      \* the time between two animation frames
    nDrags,       \* drags started so far
    camChar,      \* the character cam.current is centred on, or <<NaN, NaN>>
    tele,         \* the call of tw2tTeleport in progress
    nTele,        \* calls of tw2tTeleport so far
    lastTypingSentAt, \* lastTypingSentAt.current
    typingSent,   \* history: the times at which a Typing invocation was sent
    clock,        \* performance.now(), counted from the page load
    nTyping,      \* calls of sendTyping so far
    inputFailed   \* the promise in inputQueue.current is rejected

\* the variables the edit pipeline leaves alone
viewVars == <<joined, lastRect, cam, refreshes, hubState, hubCalls, hubLog, hubDowns>>

panVars == <<fetchTimer, timers, nSamples>>

flingVars == <<camX, dragging, samples, velocity, isInertial, rafs, now, frameMs, nDrags>>

teleVars == <<camChar, tele, nTele>>

sideVars == <<lastTypingSentAt, typingSent, clock, nTyping, inputFailed>>

auxVars == <<probe, viewVars, panVars, flingVars, teleVars, sideVars>>

\* the variables of the edit pipeline
pipeVars == <<tiles, objs, optimistic, pending, patches, inputQueue, caret,
              fetches, inFlight, nextFetch, server, hubQ, writes,
              refCaret, refWrites, nIntents, nEnv>>

vars == <<tiles, objs, optimistic, pending, patches, inputQueue, caret,
          fetches, inFlight, nextFetch, server, hubQ, writes,
          refCaret, refWrites, nIntents, nEnv, auxVars>>

clientVars == <<tiles, objs, optimistic, pending, patches, fetches,
                inFlight, nextFetch>>
inputVars == <<inputQueue, caret, writes, refCaret, refWrites, nIntents>>

NoProbe == [op |-> "none"]
NoRect == <<>>
NoDrag == <<>>
NoTele == [pc |-> "idle"]
\* stands for the number that is not a number
NaN == -2147483647

\* one pixel in the unit of camX
Micro == 1000000
\* the camera of SpecFling starts 4 pixels before a tile boundary
CamStart == 156 * Micro

\* the rectangles of tiles the camera can show
Rects == {<<1, 1, 0, 0>>, <<1, 2, 0, 0>>, <<2, 2, 0, 0>>}

EmptyMap == [o \in {} |-> [ch |-> Blank, color |-> FALSE]]

\* the edit pipeline after construction
InitClient ==
    /\ tiles = [k \in Keys |-> NoObj]
    /\ objs = <<>>
    /\ optimistic = [k \in Keys |-> EmptyMap]
    /\ pending = [k \in Keys |-> 0]
    /\ patches = <<>>
    /\ inputQueue = <<>>
    /\ caret = NoCaret
    /\ fetches = {}
    /\ inFlight = 0
    /\ nextFetch = 0
    /\ server = [k \in Keys |-> [data |-> BlankData, color |-> COLOR_CHARS,
                                 version |-> 0, created |-> FALSE]]
    /\ hubQ = <<>>
    /\ writes = <<>>
    /\ refCaret = NoCaret
    /\ refWrites = <<>>
    /\ nIntents = 0
    /\ nEnv = 0

\* the viewport after the hub has started, before the first refreshViewport
InitView ==
    /\ joined = <<>>
    /\ lastRect = NoRect
    /\ cam = <<1, 1, 0, 0>>
    /\ refreshes = <<>>
    /\ hubState = "Connected"
    /\ hubCalls = <<>>
    /\ hubLog = <<>>
    /\ hubDowns = 0
    /\ fetchTimer = FALSE
    /\ timers = 0
    /\ nSamples = 0

\* no drag and no fling; in the specifications that do not follow the pixels
\* of the camera, camX stays where it is
InitFling ==
    /\ camX = CamStart
    /\ dragging = NoDrag
    /\ samples = <<>>
    /\ velocity = 0
    /\ isInertial = FALSE
    /\ rafs = 0
    /\ now = 0
    /\ frameMs = 16
    /\ nDrags = 0

\* no teleport; the camera is centred on the origin of the world
InitTele ==
    /\ camChar = <<0, 0>>
    /\ tele = NoTele
    /\ nTele = 0

InitSide ==
    /\ lastTypingSentAt = 0
    /\ typingSent = <<>>
    /\ clock = 0
    /\ nTyping = 0
    /\ inputFailed = FALSE

Init ==
    /\ InitClient
    /\ InitView
    /\ InitFling
    /\ InitTele
    /\ InitSide
    /\ probe = NoProbe

\* ------------------------------------------------------------ Tile Store
NewTile(x, y, data, color, version) ==
    [x |-> x, y |-> y, data |-> data, color |-> color, version |-> version]

\* (mutant) a blank tile is stored under the key whether one is resident or not
ensureTile_Always(ts, os, tx, ty) ==
    [tiles |-> [x \in DOMAIN ts \cup {key(tx, ty)} |->
                  IF x = key(tx, ty) THEN Len(os) + 1 ELSE ts[x]],
     objs |-> Append(os, NewTile(tx, ty, BlankData, COLOR_CHARS, 0)),
     t |-> Len(os) + 1]

\* the store after ensureTile(tx, ty), and the tile it returns
ensureTile(ts, os, tx, ty) ==
    LET k == key(tx, ty)
    IN  IF k \in DOMAIN ts /\ ts[k] # NoObj
        THEN [tiles |-> ts, objs |-> os, t |-> ts[k]]
        ELSE [tiles |-> [x \in DOMAIN ts \cup {k} |->
                           IF x = k THEN Len(os) + 1 ELSE ts[x]],
              objs |-> Append(os, NewTile(tx, ty, BlankData, COLOR_CHARS, 0)),
              t |-> Len(os) + 1]

\* ------------------------------------------------------ optimistic overlay
MapSet(m, o, e) == [x \in DOMAIN m \cup {o} |-> IF x = o THEN e ELSE m[x]]
MapDelete(m, os) == [x \in DOMAIN m \ os |-> m[x]]

\* color: whether the entry carries a colour
setOptimistic(opt, k, offset, ch, color) ==
    [opt EXCEPT ![k] = MapSet(opt[k], offset, [ch |-> ch, color |-> color])]

clearOptimistic(opt, k, offset, len) ==
    [opt EXCEPT ![k] = MapDelete(opt[k], {offset + i : i \in 0..(len - 1)})]

\* the color string is missing or not of TILE_CHARS * 6 characters
BadColor(color) == color = NoColor \/ color # COLOR_CHARS

\* the length of t.color after setLocalColorAt(t, offset, hex6), hex6 of six
\* characters: color.slice(0, start) + hex6 + color.slice(start + 6)
setLocalColorAt(color, offset) ==
    LET base == IF BadColor(color) THEN COLOR_CHARS ELSE color
        start == offset * 6
    IN  Min(start, base) + 6 + (IF start + 6 < base THEN base - (start + 6) ELSE 0)

\* the data of tile t after reapplyOptimistic(t), m the overlay of its key
RECURSIVE ReapplyData(_, _)
ReapplyData(data, m) ==
    IF DOMAIN m = {} THEN data
    ELSE LET o == CHOOSE x \in DOMAIN m : TRUE
         IN  ReapplyData(Concat(Concat(Slice(data, 0, o), Str(<<m[o].ch>>)), SliceFrom(data, o + 1)),
                         MapDelete(m, {o}))

\* the color of tile t after the loop of reapplyOptimistic(t)
RECURSIVE ReapplyColor(_, _)
ReapplyColor(color, m) ==
    IF DOMAIN m = {} THEN color
    ELSE LET o == CHOOSE x \in DOMAIN m : TRUE
         IN  ReapplyColor(IF m[o].color THEN setLocalColorAt(color, o) ELSE color,
                          MapDelete(m, {o}))

\* (mutant) the overlay is not replayed on the tile
reapplyOptimistic_Skip(opt, t) == t

reapplyOptimistic(opt, t) ==
    LET m == opt[key(t.x, t.y)]
    IN  IF DOMAIN m = {} THEN t
        ELSE [t EXCEPT !.data = ReapplyData(t.data, m),
                       !.color = ReapplyColor(IF BadColor(t.color) THEN COLOR_CHARS
                                              ELSE t.color, m)]

\* ------------------------------------------------------------------ api.ts
\* The client's network state, threaded through the operators below:
\* [patches, pending, fetches, inFlight, nextFetch].
NetState == [patches |-> patches, pending |-> pending, fetches |-> fetches,
             inFlight |-> inFlight, nextFetch |-> nextFetch]

\* fetchTiles up to its await: the previous call still in flight is aborted
\* and this one takes its place.  kind is "view" (refreshViewport) or "fix"
\* (the catch of queuePatch, for run p); ks are the keys of the rectangle.
fetchTiles(c, kind, p, ks) ==
    LET id == c.nextFetch + 1
        others == {IF f.id = c.inFlight /\ f.st \in {"req", "resp"}
                   THEN [f EXCEPT !.st = "aborted", !.snap = <<>>] ELSE f : f \in c.fetches}
    IN  [c EXCEPT !.fetches = others \cup
                      {[id |-> id, kind |-> kind, p |-> p, keys |-> ks,
                        st |-> "req", snap |-> <<>>]},
                  !.inFlight = id,
                  !.nextFetch = id]

\* the finally of fetchTiles: the handle is cleared only by the latest call
fetchFinally(c, f) ==
    [c EXCEPT !.inFlight = IF c.inFlight = f.id THEN 0 ELSE c.inFlight]

\* the call has returned or thrown
fetchReturned(c, f) == [c EXCEPT !.fetches = c.fetches \ {f}]

\* patchTile up to its await: the request of run q leaves with knownVersion kv
patchTile(c, q, kv) ==
    [c EXCEPT !.patches[q].st = "patching",
              !.patches[q].req = "sent",
              !.patches[q].kv = kv,
              !.patches[q].sends = @ + 1]

\* -------------------------------------------------------------- queuePatch
\* the version run q sends: t.version of the tile object it was queued with
KnownVersion(c, os, q) == os[c.patches[q].obj].version

\* the .then callback of run q, up to the await of patchTile
RunThen(c, os, q) == patchTile(c, q, KnownVersion(c, os, q))

\* the .catch callback of run q, up to the await of fetchTiles
RunCatch(c, q, why) ==
    LET c1 == [c EXCEPT !.patches[q].st = "fetching",
                        !.patches[q].req = "none",
                        !.patches[q].out = why,
                        !.patches[q].fixes = @ + 1]
    IN  fetchTiles(c1, "fix", q, {c.patches[q].k})

\* run q starts once prev has settled: .then when prev was fulfilled, else
\* .then is skipped and .catch runs
StartRun(c, os, q) ==
    LET prev == c.patches[q].prev
    IN  IF prev = 0 \/ c.patches[prev].st = "fulfilled"
        THEN RunThen(c, os, q)
        ELSE RunCatch(c, q, "skipped")

RECURSIVE StartAll(_, _, _)
StartAll(c, os, qs) ==
    IF qs = {} THEN c
    ELSE LET q == CHOOSE x \in qs : \A y \in qs : x <= y
         IN  StartAll(StartRun(c, os, q), os, qs \ {q})

\* the .finally callback of run q: the entry of pending is deleted when it
\* still is this run
PendingAfterFinally(pend, k, q) == IF pend[k] = q THEN [pend EXCEPT ![k] = 0] ELSE pend

Settled(st) == st \in {"fulfilled", "rejected"}

\* run q settles with result st; its finally runs; the runs chained on it start
Settle(c, os, q, st) ==
    LET c1 == [c EXCEPT !.patches[q].st = st,
                        !.pending = PendingAfterFinally(c.pending, c.patches[q].k, q)]
        next == {r \in DOMAIN c.patches :
                    c.patches[r].prev = q /\ c.patches[r].st = "waiting"}
    IN  StartAll(c1, os, next)

\* run r of tile k has ended rejected: patchTile threw and the fetchTiles of
\* its catch threw as well
FailedTwice(r, k) ==
    r.k = k /\ r.st = "rejected" /\ r.out \in {"conflict", "neterr"}

\* (mutant) the new run is chained on a resolved promise, whatever is pending
PrevRun_Resolved(pend, k) == 0

\* (mutant) one chain for all tiles: the new run is chained on the latest run
\* still pending, whatever its key
PrevRun_AnyKey(pend, k) ==
    LET ps == {pend[x] : x \in DOMAIN pend} \ {0}
    IN  IF ps = {} THEN 0 ELSE CHOOSE m \in ps : \A y \in ps : m >= y

\* pending.current.get(k) ?? Promise.resolve(): the run the new one chains on
PrevRun(pend, k) == pend[k]

\* queuePatch(t, offset, ch): the run is chained on the pending run of the key
\* and recorded as the pending one.  A run chained on a settled promise starts
\* in the same task.  (Its setOptimistic and setLocalColorAt calls are applied
\* by RunIntent, which assigns the overlay and the tile objects.)  afterFailure
\* records whether a run of the key had already failed together with its
\* corrective fetch when this one was queued.
queuePatch(c, os, t, offset, ch) ==
    LET k == key(os[t].x, os[t].y)
        q == Len(c.patches) + 1
        prev == PrevRun(c.pending, k)
        run == [k |-> k, obj |-> t, offset |-> offset, ch |-> ch, prev |-> prev,
                st |-> "waiting", req |-> "none", kv |-> NoVersion, rv |-> NoVersion,
                sends |-> 0, fixes |-> 0, out |-> "none", accepted |-> FALSE,
                resync |-> NoVersion,
                afterFailure |-> \E p \in DOMAIN c.patches : FailedTwice(c.patches[p], k)]
        c1 == [c EXCEPT !.patches = Append(c.patches, run),
                        !.pending[k] = q]
    IN  IF prev = 0 \/ Settled(c.patches[prev].st) THEN StartRun(c1, os, q) ELSE c1

SetNet(c) ==
    \E n \in {c} :
        /\ patches' = n.patches
        /\ pending' = n.pending
        /\ fetches' = n.fetches
        /\ inFlight' = n.inFlight
        /\ nextFetch' = n.nextFetch

\* ------------------------------------------------------------- input queue
\* no intent of the input queue is waiting: the microtasks have drained and
\* the browser may start the next task
Idle == inputQueue = <<>>

\* (mutant) the new intent is put before the waiting ones
enqueueEdit_Front(queue, intent) == <<intent>> \o queue

\* enqueueEdit(fn): fn is chained behind everything enqueued before it
enqueueEdit(queue, intent) == Append(queue, intent)

\* the intent the input queue runs next
NextIntent(queue) == Head(queue)

RECURSIVE EnqueueAll(_, _)
EnqueueAll(queue, intents) ==
    IF intents = <<>> THEN queue
    ELSE EnqueueAll(enqueueEdit(queue, Head(intents)), Tail(intents))

\* The cell an intent writes and the caret it leaves, from the caret it finds:
\* a typed character goes to the caret's cell and moves the caret right, a
\* backspace blanks the cell left of the caret and moves the caret there;
\* nothing happens without a caret or on a protected cell, and nothing is
\* left of an intent whose closure throws.
Throws(intent) == intent.type = "throw"

IntentEffect(car, intent) ==
    IF car = NoCaret \/ Throws(intent) THEN [write |-> FALSE, caret |-> car]
    ELSE LET snapCx == IF intent.type = "back" THEN car.cx - 1 ELSE car.cx
             snapCy == car.cy
         IN  IF inProtected(snapCx, snapCy) THEN [write |-> FALSE, caret |-> car]
             ELSE [write |-> TRUE, cx |-> snapCx, cy |-> snapCy,
                   ch |-> IF intent.type = "back" THEN Blank ELSE intent.ch,
                   caret |-> [car EXCEPT !.cx = IF intent.type = "back"
                                                THEN snapCx ELSE snapCx + 1]]

\* the intents run one after the other, in the order given
RECURSIVE Sequentially(_, _, _)
Sequentially(car, ws, intents) ==
    IF intents = <<>> THEN [caret |-> car, writes |-> ws]
    ELSE LET e == IntentEffect(car, Head(intents))
         IN  Sequentially(e.caret,
                          IF e.write THEN Append(ws, <<e.cx, e.cy, e.ch>>) ELSE ws,
                          Tail(intents))

EnqueueUpTo(intents, max) ==
    /\ Idle
    /\ caret # NoCaret
    /\ nIntents + Len(intents) <= max
    /\ inputQueue' = EnqueueAll(inputQueue, intents)
    /\ nIntents' = nIntents + Len(intents)
    /\ LET r == Sequentially(refCaret, refWrites, intents)
       IN  refCaret' = r.caret /\ refWrites' = r.writes
    /\ UNCHANGED auxVars
    /\ UNCHANGED <<clientVars, optimistic, caret, writes, server, hubQ,
                   nEnv>>

Enqueue(intents) == EnqueueUpTo(intents, MaxIntents)

\* onKey, a printable key
KeyChar == \E ch \in TypedChars : Enqueue(<<[type |-> "char", ch |-> ch, color |-> FALSE]>>)

\* onKey, Backspace
KeyBackspace == Enqueue(<<[type |-> "back", ch |-> Blank, color |-> FALSE]>>)

\* onMobileInput: one intent per character of the text typed, each queued with
\* the colour CLEAR_HEX
MobileTyped == {<<"a", "b">>}
MobileInput ==
    \E typed \in MobileTyped :
        Enqueue([i \in 1..Len(typed) |->
                    [type |-> "char", ch |-> typed[i], color |-> TRUE]])

\* setCaretFromClientPoint: a click or tap on cell
ClickAt(cell) ==
        LET cx == cell[1]
            cy == cell[2]
            at == tileForChar(cx, cy)
            e == ensureTile(tiles, objs, at.tx, at.ty)
            car == [cx |-> cx, cy |-> cy, anchorCx |-> cx]
        IN  /\ Idle
            /\ ~inProtected(cx, cy)
            /\ caret # car
            /\ tiles' = e.tiles
            /\ objs' = e.objs
            /\ caret' = car
            /\ refCaret' = car
            /\ UNCHANGED auxVars
            /\ UNCHANGED <<optimistic, pending, patches, inputQueue, fetches,
                           inFlight, nextFetch, server, hubQ, writes,
                           refWrites, nIntents, nEnv>>

Click == \E cell \in ClickCells : ClickAt(cell)

\* the local write of an intent: t.data.slice(0, offset) + ch + t.data.slice(offset + 1)
LocalWrite(data, offset, ch) ==
    Concat(Concat(Slice(data, 0, offset), Str(<<ch>>)), SliceFrom(data, offset + 1))

\* The input queue runs its next intent: the local write, queuePatch and the
\* caret move of the onKey / onMobileInput closures.  The callback runs when
\* the promise it is chained on was fulfilled.
RunIntent ==
    /\ inputQueue # <<>>
    /\ ~inputFailed
    /\ ~Throws(NextIntent(inputQueue))
    /\ LET intent == NextIntent(inputQueue)
           eff == IntentEffect(caret, intent)
       IN  /\ inputQueue' = Tail(inputQueue)
           /\ caret' = eff.caret
           /\ IF eff.write
              THEN \E at \in {tileForChar(eff.cx, eff.cy)} :
                   \E e \in {ensureTile(tiles, objs, at.tx, at.ty)} :
                   \E k \in {key(at.tx, at.ty)} :
                   \E os \in {[e.objs EXCEPT
                                 ![e.t].data = LocalWrite(@, at.offset, eff.ch),
                                 ![e.t].color = IF intent.color
                                                THEN setLocalColorAt(@, at.offset)
                                                ELSE @]} :
                       /\ tiles' = e.tiles
                       /\ objs' = os
                       /\ optimistic' = setOptimistic(optimistic, k, at.offset, eff.ch,
                                                     intent.color)
                       /\ SetNet(queuePatch(NetState, os, e.t, at.offset, eff.ch))
                       /\ writes' = Append(writes, <<eff.cx, eff.cy, eff.ch>>)
              ELSE UNCHANGED <<clientVars, optimistic, writes>>
    /\ UNCHANGED auxVars
    /\ UNCHANGED <<refCaret, refWrites, nIntents, server, hubQ,
                   nEnv>>

\* ----------------------------------------------------------------- backend
\* The backend is not part of the repository; it is modelled from the contract
\* README.md gives it: a patch whose version is not the tile's current one is
\* answered with 409, an accepted one bumps the version and is broadcast as
\* tilePatched, GET returns the tiles that exist in the rectangle.
ServerWrite(srv, k, offset, ch) ==
    [srv EXCEPT ![k] = [data |-> Splice(srv[k].data, offset, Str(<<ch>>)),
                        color |-> srv[k].color,
                        version |-> srv[k].version + 1,
                        created |-> TRUE]]

PatchedEvent(srv, k, offset, ch) ==
    [k |-> k, offset |-> offset, text |-> Str(<<ch>>), color |-> FALSE,
     version |-> srv[k].version]

ServerAccepts(srv, k, knownVersion) == knownVersion = srv[k].version

\* the backend handles the request of a run
ServerPatch ==
  \E q \in DOMAIN patches :
    /\ Idle
    /\ patches[q].req = "sent"
    /\ LET r == patches[q]
       IN  IF ServerAccepts(server, r.k, r.kv)
           THEN LET srv == ServerWrite(server, r.k, r.offset, r.ch)
                IN  /\ server' = srv
                    /\ patches' = [patches EXCEPT ![q].req = "ok",
                                                  ![q].rv = srv[r.k].version,
                                                  ![q].accepted = TRUE]
           ELSE /\ patches' = [patches EXCEPT ![q].req = "conflict"]
                /\ UNCHANGED server
    /\ UNCHANGED auxVars
    /\ UNCHANGED <<tiles, objs, optimistic, pending, fetches, inFlight, nextFetch,
                   inputVars, hubQ, nEnv>>

\* another user's edit is accepted by the backend; this client is told of it
\* when it is subscribed to the tile
RemoteEdit ==
    \E k \in RemoteKeys, offset \in RemoteOffsets, notify \in BOOLEAN :
        /\ Idle
        /\ nEnv < MaxEnv
        /\ nEnv' = nEnv + 1
        /\ LET srv == ServerWrite(server, k, offset, RemoteChar)
           IN  /\ server' = srv
               /\ hubQ' = IF notify
                          THEN Append(hubQ, PatchedEvent(srv, k, offset, RemoteChar))
                          ELSE hubQ
        /\ UNCHANGED auxVars
        /\ UNCHANGED <<clientVars, optimistic, inputVars>>

\* the backend answers GET /api/Tile with the tiles of the rectangle that exist
ServerFetch ==
    \E f \in fetches :
        /\ Idle
        /\ f.st = "req"
        /\ LET snap == [k \in {x \in f.keys : server[x].created} |->
                           [data |-> server[k].data, color |-> server[k].color,
                            version |-> server[k].version]]
           IN  fetches' = (fetches \ {f}) \cup {[f EXCEPT !.st = "resp", !.snap = snap]}
        /\ UNCHANGED auxVars
        /\ UNCHANGED <<tiles, objs, optimistic, pending, patches, inFlight, nextFetch,
                       inputVars, server, hubQ, nEnv>>

\* ------------------------------------------------------- patch responses
\* the .then callback of run q after patchTile has returned version v:
\* t.version = res.version on the tile object the run was queued with
AdoptVersion(os, q, v) == [os EXCEPT ![patches[q].obj].version = v]

\* ... and clearOptimistic(t.x, t.y, offset, ch.length)
ClearAfterPatch(opt, q) == clearOptimistic(opt, patches[q].k, patches[q].offset, 1)

\* the response 200 {version} of run q arrives
PatchOk ==
    \E q \in DOMAIN patches :
        /\ Idle
        /\ patches[q].st = "patching"
        /\ patches[q].req = "ok"
        /\ LET os == AdoptVersion(objs, q, patches[q].rv)
               c == [NetState EXCEPT !.patches[q].req = "none",
                                     !.patches[q].out = "ok"]
           IN  /\ objs' = os
               /\ optimistic' = ClearAfterPatch(optimistic, q)
               /\ SetNet(Settle(c, os, q, "fulfilled"))
        /\ UNCHANGED auxVars
        /\ UNCHANGED <<tiles, inputVars, server, hubQ, nEnv>>

\* (mutant) the failed request is sent again
CatchFailed_Retry(c, q, why) ==
    [c EXCEPT !.patches[q].req = "sent",
              !.patches[q].out = why,
              !.patches[q].sends = @ + 1]

\* what the .catch callback of a run does about the failed request
CatchFailed(c, q, why) == RunCatch(c, q, why)

\* the response 409 of run q arrives: patchTile throws
PatchRejected ==
    \E q \in DOMAIN patches :
        /\ Idle
        /\ patches[q].st = "patching"
        /\ patches[q].req = "conflict"
        /\ SetNet(CatchFailed(NetState, q, "conflict"))
        /\ UNCHANGED auxVars
        /\ UNCHANGED <<tiles, objs, optimistic, inputVars, server, hubQ,
                       nEnv>>

\* the request of run q or its response is lost: fetch rejects, patchTile throws
PatchNetErrUpTo(max) ==
    \E q \in DOMAIN patches :
        /\ Idle
        /\ patches[q].st = "patching"
        /\ patches[q].req \in {"sent", "ok"}
        /\ nEnv < max
        /\ nEnv' = nEnv + 1
        /\ SetNet(CatchFailed(NetState, q, "neterr"))
        /\ UNCHANGED auxVars
        /\ UNCHANGED <<tiles, objs, optimistic, inputVars, server, hubQ>>

PatchNetErr == PatchNetErrUpTo(MaxEnv)

\* --------------------------------------------------------- fetch responses
\* the object JSON parsing builds for a tile of the response
Incoming(k, snapTile) ==
    NewTile(CoordOf(k)[1], CoordOf(k)[2], snapTile.data, snapTile.color, snapTile.version)

\* the catch of queuePatch after fetchTiles has returned [ref]:
\* reapplyOptimistic(ref); tiles.current.set(k, ref)
InstallRef(ts, os, opt, k, snapTile) ==
    LET ref == reapplyOptimistic(opt, Incoming(k, snapTile))
    IN  [tiles |-> [ts EXCEPT ![k] = Len(os) + 1], objs |-> Append(os, ref)]

\* the forEach body of refreshViewport for one fetched tile
MergeIncoming(ts, os, opt, k, snapTile) ==
    IF ts[k] # NoObj
    THEN LET existing == [os[ts[k]] EXCEPT
                             !.data = snapTile.data,
                             !.version = snapTile.version,
                             !.color = IF snapTile.color # NoColor
                                          /\ snapTile.color = COLOR_CHARS
                                       THEN snapTile.color ELSE @]
         IN  [tiles |-> ts, objs |-> [os EXCEPT ![ts[k]] = reapplyOptimistic(opt, existing)]]
    ELSE LET extended == reapplyOptimistic(opt, Incoming(k, snapTile))
         IN  [tiles |-> [ts EXCEPT ![k] = Len(os) + 1], objs |-> Append(os, extended)]

RECURSIVE MergeFetched(_, _, _, _)
MergeFetched(ts, os, opt, snap) ==
    IF DOMAIN snap = {} THEN [tiles |-> ts, objs |-> os]
    ELSE LET k == CHOOSE x \in DOMAIN snap : TRUE
             m == MergeIncoming(ts, os, opt, k, snap[k])
         IN  MergeFetched(m.tiles, m.objs, opt, [x \in DOMAIN snap \ {k} |-> snap[x]])

\* fetchTiles has returned list (key -> tile) to the caller of fetch f
FetchReturns(f, c, list) ==
    IF f.kind = "fix"
    THEN LET q == f.p
             k == patches[q].k
         IN  IF k \in DOMAIN list
             THEN LET m == InstallRef(tiles, objs, optimistic, k, list[k])
                      c1 == [c EXCEPT !.patches[q].resync = list[k].version]
                  IN  /\ tiles' = m.tiles
                      /\ objs' = m.objs
                      /\ SetNet(Settle(c1, m.objs, q, "fulfilled"))
             ELSE /\ SetNet(Settle(c, objs, q, "fulfilled"))
                  /\ UNCHANGED <<tiles, objs>>
    ELSE LET m == MergeFetched(tiles, objs, optimistic, list)
         IN  /\ tiles' = m.tiles
             /\ objs' = m.objs
             /\ SetNet(c)

NoTiles == [k \in {} |-> 0]

\* the response headers of fetch f arrive: fetchTiles returns r.json() and its
\* finally clears the handle; the body is still being read
FetchHeaders ==
    \E f \in fetches :
        /\ Idle
        /\ f.st = "resp"
        /\ fetches' = (fetches \ {f}) \cup {[f EXCEPT !.st = "body"]}
        /\ inFlight' = fetchFinally(NetState, f).inFlight
        /\ UNCHANGED auxVars
        /\ UNCHANGED <<tiles, objs, optimistic, pending, patches, nextFetch,
                       inputVars, server, hubQ, nEnv>>

\* the body of fetch f has been parsed: the caller goes on with the tiles
FetchBody ==
    \E f \in fetches :
        /\ Idle
        /\ f.st = "body"
        /\ FetchReturns(f, fetchReturned(NetState, f), f.snap)
        /\ UNCHANGED auxVars
        /\ UNCHANGED <<optimistic, inputVars, server, hubQ, nEnv>>

\* fetch f was aborted by a later call: isAbort, it returns []
FetchAborted ==
    \E f \in fetches :
        /\ Idle
        /\ f.st = "aborted"
        /\ FetchReturns(f, fetchReturned(fetchFinally(NetState, f), f), NoTiles)
        /\ UNCHANGED auxVars
        /\ UNCHANGED <<optimistic, inputVars, server, hubQ, nEnv>>

\* fetch f fails (network error, or a status that is not ok): fetchTiles
\* throws; the catch of queuePatch rejects, refreshViewport rejects
FetchNetErrUpTo(max) ==
    \E f \in fetches :
        /\ Idle
        /\ f.st = "req"
        /\ nEnv < max
        /\ nEnv' = nEnv + 1
        /\ LET c == fetchReturned(fetchFinally(NetState, f), f)
           IN  IF f.kind = "fix"
               THEN SetNet(Settle(c, objs, f.p, "rejected"))
               ELSE SetNet(c)
        /\ UNCHANGED auxVars
        /\ UNCHANGED <<tiles, objs, optimistic, inputVars, server, hubQ>>

FetchNetErr == FetchNetErrUpTo(MaxEnv)

\* ------------------------------------------------------------- refreshViewport
\* refreshViewport up to its await of fetchTiles; the camera does not move in
\* this model and its rectangle holds every tile of Keys
RefreshViewport ==
    /\ Idle
    /\ nEnv < MaxEnv
    /\ nEnv' = nEnv + 1
    /\ SetNet(fetchTiles(NetState, "view", 0, Keys))
    /\ UNCHANGED auxVars
    /\ UNCHANGED <<tiles, objs, optimistic, inputVars, server, hubQ>>

\* ------------------------------------------------------------------ tilePatched
\* (mutant) the handler does not replay the overlay
ApplyPatched_NoReapply(opt, t, msg) ==
    [t EXCEPT !.data = Splice(t.data, msg.offset, msg.text),
              !.version = msg.version]

\* the tile after the handler of hub event msg
ApplyPatched(opt, t, msg) ==
    reapplyOptimistic(opt, [t EXCEPT !.data = Splice(t.data, msg.offset, msg.text),
                                     !.color = IF msg.color
                                               THEN setLocalColorAt(@, msg.offset)
                                               ELSE @,
                                     !.version = msg.version])

\* (mutant) an event for a tile that is not resident creates the tile
onTilePatched_Create(ts, os, opt, msg) ==
    LET e == ensureTile(ts, os, CoordOf(msg.k)[1], CoordOf(msg.k)[2])
    IN  [tiles |-> e.tiles,
         objs |-> [e.objs EXCEPT ![e.t] = ApplyPatched(opt, @, msg)]]

\* the store after the handler of hub event msg: the event is dropped when its
\* tile is not resident
onTilePatched(ts, os, opt, msg) ==
    IF ts[msg.k] = NoObj
    THEN [tiles |-> ts, objs |-> os]
    ELSE [tiles |-> ts,
          objs |-> [os EXCEPT ![ts[msg.k]] = ApplyPatched(opt, @, msg)]]

TilePatched ==
    /\ Idle
    /\ hubQ # <<>>
    /\ LET msg == Head(hubQ)
           m == onTilePatched(tiles, objs, optimistic, msg)
       IN  /\ hubQ' = Tail(hubQ)
           /\ tiles' = m.tiles
           /\ objs' = m.objs
    /\ UNCHANGED auxVars
    /\ UNCHANGED <<optimistic, pending, patches, fetches, inFlight, nextFetch,
                   inputVars, server, nEnv>>

\* ---------------------------------------------------------------------- Spec
Next ==
    \/ Click
    \/ KeyChar
    \/ KeyBackspace
    \/ MobileInput
    \/ RunIntent
    \/ ServerPatch
    \/ PatchOk
    \/ PatchRejected
    \/ PatchNetErr
    \/ RemoteEdit
    \/ RefreshViewport
    \/ ServerFetch
    \/ FetchHeaders
    \/ FetchBody
    \/ FetchAborted
    \/ FetchNetErr
    \/ TilePatched

Spec == Init /\ [][Next]_vars

\* ------------------------------------------------------- wider hub events
\* The range patches of other clients (README: "Contiguous range patch"), as
\* <<offset, text, coloured>>: one over the cell the local edits start at, one
\* whose text ends with the last cell of the tile.
HubRanges == {<<120, <<"r">>, FALSE>>, <<TILE_CHARS - 2, <<"r", "s">>, TRUE>>}

ServerWriteRange(srv, k, offset, text) ==
    [srv EXCEPT ![k] = [data |-> Splice(srv[k].data, offset, Str(text)),
                        color |-> srv[k].color,
                        version |-> srv[k].version + 1,
                        created |-> TRUE]]

\* another client's range patch of tile k is accepted and broadcast to this
\* client
RemoteRangeOf(k) ==
    \E rg \in HubRanges :
        /\ Idle
        /\ nEnv < MaxEnv
        /\ nEnv' = nEnv + 1
        /\ LET srv == ServerWriteRange(server, k, rg[1], rg[2])
           IN  /\ server' = srv
               /\ hubQ' = Append(hubQ, [k |-> k, offset |-> rg[1], text |-> Str(rg[2]),
                                        color |-> rg[3], version |-> srv[k].version])
        /\ UNCHANGED auxVars
        /\ UNCHANGED <<clientVars, optimistic, inputVars>>

RemoteRange == \E k \in RemoteKeys : RemoteRangeOf(k)

NextHub ==
    \/ Next
    \/ RemoteRange

SpecHub == Init /\ [][NextHub]_vars

\* --------------------------------------------------------------------- key
\* Number(str) for the decimal numeral of an integer
DigitValue(c) == CHOOSE d \in 0..9 : Digit[d + 1] = c

RECURSIVE StringToNat(_, _)
StringToNat(str, acc) ==
    IF str = <<>> THEN acc
    ELSE StringToNat(Tail(str), acc * 10 + DigitValue(Head(str)))

StringToNum(str) ==
    IF str # <<>> /\ Head(str) = "-" THEN -StringToNat(Tail(str), 0)
    ELSE StringToNat(str, 0)

\* str.split(sep)
RECURSIVE SplitOn(_, _, _)
SplitOn(str, sep, cur) ==
    IF str = <<>> THEN <<cur>>
    ELSE IF Head(str) = sep THEN <<cur>> \o SplitOn(Tail(str), sep, <<>>)
         ELSE SplitOn(Tail(str), sep, Append(cur, Head(str)))

\* k.split(':').map(Number), as refreshViewport reads a key back
ParseKey(k) ==
    LET parts == SplitOn(k, ":", <<>>)
    IN  [i \in 1..Len(parts) |-> StringToNum(parts[i])]

\* tile coordinates: the origin, small ones of one and of two digits, and the
\* largest ones, of both signs
KeyCoords == {-MaxTile, -12, -1, 0, 1, 2, 12, 21, MaxTile}

InitKey ==
    /\ InitClient
    /\ InitView
    /\ InitFling
    /\ InitTele
    /\ InitSide
    /\ probe \in {[op |-> "keyArgs", a |-> <<x1, y1>>, b |-> <<x2, y2>>] :
                     x1 \in KeyCoords, y1 \in KeyCoords,
                     x2 \in KeyCoords, y2 \in KeyCoords}

CallKey ==
    /\ probe.op = "keyArgs"
    /\ LET ka == key(probe.a[1], probe.a[2])
           kb == key(probe.b[1], probe.b[2])
       IN  probe' = [op |-> "key", a |-> probe.a, b |-> probe.b,
                     ka |-> ka, kb |-> kb,
                     pa |-> ParseKey(ka), pb |-> ParseKey(kb)]
    /\ UNCHANGED <<pipeVars, viewVars, panVars, flingVars, teleVars, sideVars>>

NextKey == CallKey

SpecKey == InitKey /\ [][NextKey]_vars

\* ------------------------------------------------------------- tileForChar
\* the cell of column col, row row of tile (x, y): the peerTyping handler
charOfTile(x, y, col, row) == [cx |-> x * TILE_W + col, cy |-> y * TILE_H + row]

InitCoord ==
    /\ InitClient
    /\ InitView
    /\ InitFling
    /\ InitTele
    /\ InitSide
    /\ probe \in {[op |-> "args", cx |-> x, cy |-> y] :
                     x \in -MaxCoord..MaxCoord, y \in -MaxCoord..MaxCoord}

CallTileForChar ==
    /\ probe.op = "args"
    /\ probe' = [op |-> "tileForChar", cx |-> probe.cx, cy |-> probe.cy,
                 at |-> tileForChar(probe.cx, probe.cy)]
    /\ UNCHANGED <<pipeVars, viewVars, panVars, flingVars, teleVars, sideVars>>

NextCoord == CallTileForChar

SpecCoord == InitCoord /\ [][NextCoord]_vars

\* ------------------------------------------------- wrong-sized responses
\* a tile of a response whose buffers are too short
Truncated(srvTile) ==
    [data |-> Slice(srvTile.data, 0, TILE_CHARS - 1),
     color |-> COLOR_CHARS - 6,
     version |-> srvTile.version]

WrongSized(snapTile) ==
    snapTile.data.len # TILE_CHARS \/ snapTile.color # COLOR_CHARS

\* the backend (or what stands between it and the client) answers GET
\* /api/Tile with tiles whose buffers are not of the fixed size
ServerFetchWrongSized ==
    \E f \in fetches :
        /\ Idle
        /\ f.st = "req"
        /\ nEnv < MaxEnv
        /\ nEnv' = nEnv + 1
        /\ \E k \in f.keys : server[k].created
        /\ LET snap == [k \in {x \in f.keys : server[x].created} |->
                           Truncated(server[k])]
           IN  fetches' = (fetches \ {f}) \cup {[f EXCEPT !.st = "resp", !.snap = snap]}
        /\ UNCHANGED auxVars
        /\ UNCHANGED <<tiles, objs, optimistic, pending, patches, inFlight, nextFetch,
                       inputVars, server, hubQ>>

NextWrongSized ==
    \/ Next
    \/ ServerFetchWrongSized

SpecWrongSized == Init /\ [][NextWrongSized]_vars

\* ------------------------------------------------------------- two tiles
\* Local edits, their patches and the hub events of two tiles; no viewport
\* fetch is made, no request is lost and the corrective fetches stay
\* unanswered.
\* the caret is placed in the neighbouring tile
ClickFar == \E cell \in FarCells : ClickAt(cell)

\* another client's range patch of a tile outside RemoteKeys
RemoteFar == \E k \in Keys \ RemoteKeys : RemoteRangeOf(k)

NextStore ==
    \/ Click
    \/ ClickFar
    \/ KeyChar
    \/ MobileInput
    \/ RunIntent
    \/ ServerPatch
    \/ PatchOk
    \/ PatchRejected
    \/ RemoteRange
    \/ RemoteFar
    \/ TilePatched

SpecStore == Init /\ [][NextStore]_vars

\* the promise chain of the input queue runs its callbacks; no request of the
\* client has to be answered
SpecStoreFair == SpecStore /\ WF_vars(RunIntent)

\* ------------------------------------------------ the viewport subscriptions
\* the tile keys of a rectangle in the order the loops of refreshViewport add
\* them to need: rows outside, columns inside
NeedOf(rect) ==
    LET w == rect[2] - rect[1] + 1
        h == rect[4] - rect[3] + 1
    IN  [i \in 1..(w * h) |-> key(rect[1] + ((i - 1) % w), rect[3] + ((i - 1) \div w))]

InSeq(x, q) == \E i \in 1..Len(q) : q[i] = x
SetOf(q) == {q[i] : i \in 1..Len(q)}

\* Set.add and Set.delete of joined.current, which iterates in insertion order
SetAdd(q, x) == IF InSeq(x, q) THEN q ELSE Append(q, x)
SetDelete(q, x) == SelectSeq(q, LAMBDA y : y # x)

HubCall(method, k, by) == [method |-> method, k |-> k, by |-> by]

\* the state a refreshViewport invocation r works on
ViewState(r) ==
    [joined |-> joined, lastRect |-> lastRect, hubCalls |-> hubCalls,
     hubLog |-> hubLog, r |-> r]

\* (mutant) the invocation is sent whatever the state of the hub
hubSafeInvoke_Always(v, conn, method, k) ==
    [v EXCEPT !.hubCalls = Append(@, HubCall(method, k, v.r.id)),
              !.hubLog = Append(@, HubCall(method, k, v.r.id)),
              !.r.pc = method]

\* hubSafeInvoke: the invocation is sent only while the hub is connected;
\* otherwise the call resolves at once
hubSafeInvoke(v, conn, method, k) ==
    IF conn
    THEN [v EXCEPT !.hubCalls = Append(@, HubCall(method, k, v.r.id)),
                   !.hubLog = Append(@, HubCall(method, k, v.r.id)),
                   !.r.pc = method]
    ELSE [v EXCEPT !.r.pc = "resolved"]

\* the loop over [...joined.current], from position v.r.i of the copy v.r.snap,
\* up to the next invocation it has to wait for; past the loop, lastRect is set
RECURSIVE LeaveLoop(_, _)
LeaveLoop(v, conn) ==
    IF v.r.i > Len(v.r.snap)
    THEN [v EXCEPT !.lastRect = v.r.rect, !.r.pc = "done"]
    ELSE LET k == v.r.snap[v.r.i]
         IN  IF InSeq(k, v.r.need)
             THEN LeaveLoop([v EXCEPT !.r.i = @ + 1], conn)
             ELSE LET w == hubSafeInvoke(v, conn, "LeaveTile", k)
                  IN  IF w.r.pc = "resolved"
                      THEN LeaveLoop([w EXCEPT !.joined = SetDelete(@, k),
                                               !.r.i = @ + 1], conn)
                      ELSE w

\* the loop over need, from position v.r.i, up to the next invocation it has to
\* wait for; past the loop, the loop of the leaves starts on a copy of joined
RECURSIVE JoinLoop(_, _)
JoinLoop(v, conn) ==
    IF v.r.i > Len(v.r.need)
    THEN LeaveLoop([v EXCEPT !.r.i = 1, !.r.snap = v.joined], conn)
    ELSE LET k == v.r.need[v.r.i]
         IN  IF InSeq(k, v.joined)
             THEN JoinLoop([v EXCEPT !.r.i = @ + 1], conn)
             ELSE LET w == hubSafeInvoke(v, conn, "JoinTile", k)
                  IN  IF w.r.pc = "resolved"
                      THEN JoinLoop([w EXCEPT !.joined = SetAdd(@, k),
                                              !.r.i = @ + 1], conn)
                      ELSE w

SetView(v) ==
    /\ joined' = v.joined
    /\ lastRect' = v.lastRect
    /\ hubCalls' = v.hubCalls
    /\ hubLog' = v.hubLog
    /\ refreshes' = [refreshes EXCEPT ![v.r.id] = v.r]

Active(r) == r.pc \in {"fetch", "JoinTile", "LeaveTile"}

\* an aborted fetch rejects in the task that aborted it, before any response
\* of the network is handled
AbortsDelivered == \A f \in fetches : f.st # "aborted"

\* the camera moves: its rectangle of tiles changes
MoveCamera ==
    /\ \E rect \in Rects \ {cam} : cam' = rect
    /\ UNCHANGED <<pipeVars, probe, panVars, flingVars, teleVars, sideVars, joined, lastRect, refreshes, hubState,
                   hubCalls, hubLog, hubDowns>>

\* a call of refreshViewport with the camera over rect, up to its await of
\* fetchTiles; alone records that no other invocation was running during this
\* one, before the joined set the invocation started from
BeginRefresh(rect) ==
    LET id == Len(refreshes) + 1
        overlap == \E i \in 1..Len(refreshes) : Active(refreshes[i])
        r == [id |-> id, rect |-> rect, need |-> NeedOf(rect), pc |-> "fetch",
              i |-> 1, snap |-> <<>>, alone |-> ~overlap, before |-> joined]
    IN  /\ refreshes' = Append([i \in 1..Len(refreshes) |->
                                  IF Active(refreshes[i])
                                  THEN [refreshes[i] EXCEPT !.alone = FALSE]
                                  ELSE refreshes[i]], r)
        /\ SetNet(fetchTiles(NetState, "view", id, SetOf(NeedOf(rect))))

CallRefresh ==
    /\ Len(refreshes) < MaxRefresh
    /\ BeginRefresh(cam)
    /\ UNCHANGED <<tiles, objs, optimistic, inputVars, server, hubQ, nEnv, probe,
                   joined, lastRect, cam, hubState, hubCalls, hubLog, hubDowns,
                   flingVars, teleVars, sideVars>>

\* refreshViewport is called outside of the motion handlers (boot, caret follow)
StartRefresh ==
    /\ CallRefresh
    /\ UNCHANGED panVars

\* fetchTiles has returned list to invocation f.p of refreshViewport: the
\* tiles are merged and the loops run up to their first await
ViewFetchReturns(f, c, list) ==
    LET m == MergeFetched(tiles, objs, optimistic, list)
    IN  /\ tiles' = m.tiles
        /\ objs' = m.objs
        /\ SetNet(c)
        /\ SetView(JoinLoop(ViewState(refreshes[f.p]), hubState = "Connected"))

\* the body of the fetch of a refreshViewport invocation has been parsed
ViewFetchBody ==
    \E f \in fetches :
        /\ AbortsDelivered
        /\ f.st = "body"
        /\ ViewFetchReturns(f, fetchReturned(NetState, f), f.snap)
        /\ UNCHANGED <<optimistic, inputVars, server, hubQ, nEnv, probe, panVars, flingVars, teleVars, sideVars, cam,
                       hubState, hubDowns>>

\* the fetch of a refreshViewport invocation was aborted by the fetch of a
\* later one: fetchTiles returns [] and the invocation goes on
ViewFetchAborted ==
    \E f \in fetches :
        /\ f.st = "aborted"
        /\ ViewFetchReturns(f, fetchReturned(fetchFinally(NetState, f), f), NoTiles)
        /\ UNCHANGED <<optimistic, inputVars, server, hubQ, nEnv, probe, panVars, flingVars, teleVars, sideVars, cam,
                       hubState, hubDowns>>

\* the fetch of a refreshViewport invocation fails: fetchTiles throws and the
\* invocation ends there
ViewFetchNetErr ==
    \E f \in fetches :
        /\ f.st = "req"
        /\ nEnv < MaxEnv
        /\ nEnv' = nEnv + 1
        /\ SetNet(fetchReturned(fetchFinally(NetState, f), f))
        /\ refreshes' = [refreshes EXCEPT ![f.p].pc = "failed"]
        /\ UNCHANGED <<tiles, objs, optimistic, inputVars, server, hubQ, probe, panVars, flingVars, teleVars, sideVars,
                       joined, lastRect, cam, hubState, hubCalls, hubLog, hubDowns>>

\* the oldest hub invocation completes (its failure is swallowed by the catch
\* of hubSafeInvoke): the invocation of refreshViewport that awaits it updates
\* joined and goes on with its loop
HubCallDone ==
    /\ AbortsDelivered
    /\ hubCalls # <<>>
    /\ Head(hubCalls).method \in {"JoinTile", "LeaveTile"}
    /\ LET call == Head(hubCalls)
           r == refreshes[call.by]
           v == [ViewState(r) EXCEPT !.hubCalls = Tail(hubCalls), !.r.i = @ + 1]
           conn == hubState = "Connected"
       IN  IF call.method = "JoinTile"
           THEN SetView(JoinLoop([v EXCEPT !.joined = SetAdd(@, call.k)], conn))
           ELSE SetView(LeaveLoop([v EXCEPT !.joined = SetDelete(@, call.k)], conn))
    /\ UNCHANGED <<pipeVars, probe, panVars, flingVars, teleVars, sideVars, cam, hubState, hubDowns>>

\* the hub connection is lost: hub.state leaves Connected
HubDown ==
    /\ hubState = "Connected"
    /\ hubDowns < MaxDown
    /\ hubState' = "Reconnecting"
    /\ hubDowns' = hubDowns + 1
    /\ UNCHANGED <<pipeVars, probe, panVars, flingVars, teleVars, sideVars, joined, lastRect, cam, refreshes, hubCalls, hubLog>>

\* the automatic reconnect succeeds
HubUp ==
    /\ hubState = "Reconnecting"
    /\ hubState' = "Connected"
    /\ UNCHANGED <<pipeVars, probe, panVars, flingVars, teleVars, sideVars, joined, lastRect, cam, refreshes, hubCalls,
                   hubLog, hubDowns>>

NextView ==
    \/ MoveCamera
    \/ StartRefresh
    \/ ServerFetch
    \/ FetchHeaders
    \/ ViewFetchBody
    \/ ViewFetchAborted
    \/ ViewFetchNetErr
    \/ HubCallDone
    \/ HubDown
    \/ HubUp

SpecView == Init /\ [][NextView]_vars

\* ---------------------------------------------------- the throttled refresh
\* scheduleViewportFetch: a timeout is set unless one is pending
scheduleViewportFetch_NoGuard(armed, n) == [fetchTimer |-> TRUE, timers |-> n + 1]

scheduleViewportFetch(armed, n) ==
    IF armed THEN [fetchTimer |-> armed, timers |-> n]
    ELSE [fetchTimer |-> TRUE, timers |-> n + 1]

\* the end of a motion sample (drag move, touch move, inertial step) that has
\* left the camera over rect: the rectangle is compared with lastRect
MotionCheck(rect) ==
    IF lastRect = NoRect \/ rect # lastRect
    THEN LET t == scheduleViewportFetch(fetchTimer, timers)
         IN  /\ lastRect' = rect
             /\ fetchTimer' = t.fetchTimer
             /\ timers' = t.timers
    ELSE UNCHANGED <<lastRect, fetchTimer, timers>>

\* a motion sample: the camera is moved, to the same rectangle of tiles or to
\* another one
MotionSample ==
    \E rect \in Rects :
        /\ nSamples < MaxSamples
        /\ nSamples' = nSamples + 1
        /\ cam' = rect
        /\ MotionCheck(rect)
        /\ UNCHANGED <<pipeVars, probe, joined, refreshes, hubState, hubCalls,
                       hubLog, hubDowns, flingVars, teleVars, sideVars>>

\* a timeout of scheduleViewportFetch fires: the handle is cleared and
\* refreshViewport is called
TimerFires ==
    /\ timers > 0
    /\ timers' = timers - 1
    /\ fetchTimer' = FALSE
    /\ CallRefresh
    /\ UNCHANGED nSamples

NextPan ==
    \/ MotionSample
    \/ TimerFires
    \/ StartRefresh
    \/ ServerFetch
    \/ FetchHeaders
    \/ ViewFetchBody
    \/ ViewFetchAborted
    \/ HubCallDone

SpecPan == Init /\ [][NextPan]_vars

\* ------------------------------------------------------------ drag and fling
\* The camera is followed along x, in millionths of a pixel; speeds are in
\* millionths of a pixel per millisecond, so that squared speeds are compared
\* through absolute values.  refreshViewport is followed up to its await of
\* fetchTiles.
SAMPLE_MS == 180
QUIET_WINDOW_MS == 25
QUIET_DIST_PX == 6
\* MIN_SPEED = 0.00006 pixels per ms
MIN_SPEED == 60
\* startInertia is called when speed2 > 0.000001
FlingFloor == 1000
\* the cap of dt in the step of startInertia
MaxStepMs == 40

\* metrics: the size of a cell in pixels, and the size of the canvas in world
\* pixels
CellX == 10
CellY == 10
WorldW == 320
WorldH == 160
CamY == 0

\* the moves of the pointer between two mousemove events, in pixels, and the
\* time that passes before an event
Deltas == {2, 8}
Gaps == {10, 200}
FrameRates == {16, 50}

Abs(n) == IF n < 0 THEN -n ELSE n
Max(a, b) == IF a > b THEN a ELSE b

\* currentTileRect, with the camera at cx
currentTileRect(cx) ==
    <<(cx \div (TILE_W * CellX * Micro)) - 2,
      ((cx + WorldW * Micro) \div (TILE_W * CellX * Micro)) + 2,
      (CamY \div (TILE_H * CellY)) - 2,
      ((CamY + WorldH) \div (TILE_H * CellY)) + 2>>

\* the move of the camera for a move d of the pointer since the start of the
\* drag: (d / viewScale) * DRAG_SENS, with viewScale .95 and DRAG_SENS .9
DragDelta(d) == ((d * Micro) \div 95) * 90

\* the velocity of the fling: ((dx / dt) / viewScale) * FLING_SCALE, with
\* FLING_SCALE 0.6
FlingVelocity(dx, dt) == (((((dx * Micro) \div dt) * 100) \div 95) * 6) \div 10

\* Math.exp(-DECAY_PER_MS * dt) in thousandths, DECAY_PER_MS being 0.007
Decay(dt) == IF dt = 16 THEN 894 ELSE IF dt = 40 THEN 756 ELSE 1000

\* the samples older than SAMPLE_MS are dropped while more than two are left
RECURSIVE TrimSamples(_, _)
TrimSamples(buf, t) ==
    IF Len(buf) > 2 /\ t - buf[1].t > SAMPLE_MS THEN TrimSamples(Tail(buf), t) ELSE buf

\* the first sample that is within QUIET_WINDOW_MS of the last one
RECURSIVE QuietStart(_, _)
QuietStart(buf, i) ==
    IF i > 1 /\ buf[Len(buf)].t - buf[i - 1].t <= QUIET_WINDOW_MS
    THEN QuietStart(buf, i - 1)
    ELSE i

\* speed2 < MIN_SPEED * MIN_SPEED, the test that ends a fling
BelowFloor_Never(v) == FALSE

BelowFloor(v) == Abs(v) < MIN_SPEED

hubVars == <<joined, hubState, hubCalls, hubLog, hubDowns>>
storeVars == <<tiles, objs, optimistic, inputVars, server, hubQ, nEnv>>
netVars == <<patches, pending, fetches, inFlight, nextFetch>>

InitFlingSpec ==
    /\ InitClient
    /\ probe = NoProbe
    /\ joined = <<>>
    /\ lastRect = NoRect
    /\ cam = currentTileRect(CamStart)
    /\ refreshes = <<>>
    /\ hubState = "Connected"
    /\ hubCalls = <<>>
    /\ hubLog = <<>>
    /\ hubDowns = 0
    /\ fetchTimer = FALSE
    /\ timers = 0
    /\ nSamples = 0
    /\ camX = CamStart
    /\ dragging = NoDrag
    /\ samples = <<>>
    /\ velocity = 0
    /\ isInertial = FALSE
    /\ rafs = 0
    /\ now = 0
    /\ frameMs \in FrameRates
    /\ nDrags = 0
    /\ InitTele
    /\ InitSide

\* onMouseDown: the drag starts where the camera is, a fling is stopped
MouseDown ==
    /\ dragging = NoDrag
    /\ nDrags < MaxDrags
    /\ nDrags' = nDrags + 1
    /\ dragging' = [startMouseX |-> 0, startCamX |-> camX]
    /\ isInertial' = FALSE
    /\ now' = 0
    /\ samples' = <<[x |-> 0, t |-> 0]>>
    /\ UNCHANGED <<pipeVars, probe, viewVars, panVars, teleVars, sideVars, camX, velocity, rafs,
                   frameMs>>

\* onMouseMove while dragging: the camera follows the pointer, the rectangle
\* is compared with lastRect, the sample is recorded
MouseMove ==
    \E d \in Deltas, gap \in Gaps :
        /\ dragging # NoDrag
        /\ nSamples < MaxSamples
        /\ nSamples' = nSamples + 1
        /\ now' = now + gap
        /\ LET x == samples[Len(samples)].x + d
               cx == dragging.startCamX - DragDelta(x - dragging.startMouseX)
           IN  /\ camX' = cx
               /\ cam' = currentTileRect(cx)
               /\ MotionCheck(currentTileRect(cx))
               /\ samples' = TrimSamples(Append(samples, [x |-> x, t |-> now + gap]),
                                         now + gap)
        /\ UNCHANGED <<pipeVars, probe, hubVars, refreshes, teleVars, sideVars, dragging,
                       velocity, isInertial, rafs, frameMs, nDrags>>

\* startInertia, up to its requestAnimationFrame
startInertia ==
    /\ isInertial' = TRUE
    /\ rafs' = rafs + 1

\* onMouseUp: a drag with a quiet end refreshes the viewport, any other drag
\* that was fast enough starts a fling
MouseUp ==
    \E gap \in Gaps :
        /\ dragging # NoDrag
        /\ dragging' = NoDrag
        /\ samples' = <<>>
        /\ now' = now + gap
        /\ LET buf == samples
               end == buf[Len(buf)]
               start == buf[QuietStart(buf, Len(buf))]
               dt == Max(16, end.t - buf[1].t)
               v == FlingVelocity(end.x - buf[1].x, dt)
           IN  IF Len(buf) >= 2 /\ Abs(end.x - start.x) >= QUIET_DIST_PX
                                /\ Abs(v) > FlingFloor
               THEN /\ velocity' = v
                    /\ startInertia
                    /\ UNCHANGED <<refreshes, netVars>>
               ELSE /\ BeginRefresh(cam)
                    /\ UNCHANGED <<velocity, isInertial, rafs>>
        /\ UNCHANGED <<storeVars, probe, hubVars, lastRect, cam, panVars, teleVars, sideVars,
                       camX, frameMs, nDrags>>

\* a step of startInertia runs in an animation frame: the camera advances, the
\* rectangle is compared with lastRect, the velocity decays; below MIN_SPEED
\* the fling ends with a call of refreshViewport
InertiaStep ==
    /\ rafs > 0
    /\ IF ~isInertial
       THEN /\ rafs' = rafs - 1
            /\ UNCHANGED <<pipeVars, viewVars, fetchTimer, timers, camX, velocity,
                           isInertial>>
       ELSE LET dt == Min(frameMs, MaxStepMs)
                cx == camX - velocity * dt
                v == (velocity * Decay(dt)) \div 1000
            IN  /\ camX' = cx
                /\ cam' = currentTileRect(cx)
                /\ MotionCheck(currentTileRect(cx))
                /\ velocity' = v
                /\ IF BelowFloor(v)
                   THEN /\ isInertial' = FALSE
                        /\ rafs' = rafs - 1
                        /\ BeginRefresh(currentTileRect(cx))
                   ELSE /\ UNCHANGED <<isInertial, rafs, refreshes, netVars>>
                /\ UNCHANGED <<storeVars, hubVars>>
    /\ UNCHANGED <<probe, teleVars, sideVars, nSamples, dragging, samples, now, frameMs, nDrags>>

NextFling ==
    \/ MouseDown
    \/ MouseMove
    \/ MouseUp
    \/ InertiaStep
    \/ TimerFires

SpecFling == InitFlingSpec /\ [][NextFling]_vars

\* every step of a fling gets its animation frame
SpecFlingFair == SpecFling /\ WF_vars(InertiaStep)

\* ------------------------------------------------------------- tw2tTeleport
\* The camera is followed through the character it is centred on
\* (cameraTargetForChar: cam = c * cell - world / 2), numbers are whole numbers
\* or NaN, and refreshViewport is followed up to its await of fetchTiles; its
\* return is a step of its own.
MAX_CHARS_ABS == 2000000000
COORD_UNIT == 10

\* the options of a call: <<x, y, units>>, center, placeCaret, animateMs
TeleTargets ==
    {<<0, 0, "char">>, <<24, 7, "char">>, <<2100000000, 7, "char">>,
     <<NaN, 7, "char">>, <<2, 0, "tile">>, <<3, 1, "unit">>}
TeleMs == {0, 500, NaN}

\* toCharCoords, one coordinate
toCharCoords(x, units) ==
    IF x = NaN THEN NaN
    ELSE IF units = "char" THEN x
    ELSE IF units = "tile" THEN x * TILE_W
    ELSE x * COORD_UNIT

clampChar(n) ==
    IF n = NaN THEN 0 ELSE Max(-MAX_CHARS_ABS, Min(MAX_CHARS_ABS, n))

\* Math.max(0, Math.min(4000, Math.trunc(animateMs))): NaN goes through
ClampMs(a) == IF a = NaN THEN NaN ELSE Max(0, Min(4000, a))

\* the step of animateCameraTo at half (t = 1) and at the end (t = 2) of the
\* duration: start + (target - start) * e, e being 1/2 and 1
AnimPos(start, target, t) ==
    IF start[1] = NaN THEN <<NaN, NaN>>
    ELSE <<start[1] + (IF t = 2 THEN target[1] - start[1] ELSE (target[1] - start[1]) \div 2),
           start[2] + (IF t = 2 THEN target[2] - start[2] ELSE (target[2] - start[2]) \div 2)>>

\* currentTileRect with the camera centred on character c; with NaN in the
\* camera no tile is inside the rectangle
HalfW == WorldW \div (2 * CellX)
HalfH == WorldH \div (2 * CellY)
TeleRect(c) ==
    IF c[1] = NaN THEN <<0, -1, 0, -1>>
    ELSE <<((c[1] - HalfW) \div TILE_W) - 2, ((c[1] + HalfW) \div TILE_W) + 2,
           ((c[2] - HalfH) \div TILE_H) - 2, ((c[2] + HalfH) \div TILE_H) + 2>>

\* the camera has arrived: tw2tTeleport calls refreshViewport and awaits it
TeleRefresh(t, c) ==
    /\ camChar' = c
    /\ tele' = [t EXCEPT !.pc = "refresh"]
    /\ BeginRefresh(TeleRect(c))

\* tw2tTeleport(opts), up to its first await
Teleport ==
    \E tg \in TeleTargets, center \in BOOLEAN, placeCaret \in BOOLEAN, animateMs \in TeleMs :
        LET cx == clampChar(toCharCoords(tg[1], tg[3]))
            cy == clampChar(toCharCoords(tg[2], tg[3]))
            t == [pc |-> "anim", opts |-> <<tg, center, placeCaret, animateMs>>,
                  cx |-> cx, cy |-> cy,
                  wantCaret |-> placeCaret /\ ~inProtected(cx, cy),
                  ms |-> ClampMs(animateMs), start |-> camChar, t |-> 0]
        IN  /\ tele = NoTele
            /\ nTele < MaxTele
            /\ nTele' = nTele + 1
            /\ IF center /\ t.ms # 0
               THEN /\ tele' = t
                    /\ UNCHANGED <<camChar, refreshes, netVars>>
               ELSE TeleRefresh(t, <<cx, cy>>)
            /\ UNCHANGED <<storeVars, probe, hubVars, lastRect, cam, panVars, flingVars, sideVars>>

\* a frame of animateCameraTo: the camera is moved along the curve; at the end
\* of the duration the promise resolves and tw2tTeleport goes on
AnimFrame ==
    /\ tele.pc = "anim"
    /\ IF tele.ms = NaN
       THEN TeleRefresh(tele, <<NaN, NaN>>)
       ELSE \E t \in {1, 2} :
               /\ t > tele.t
               /\ IF t = 2
                  THEN TeleRefresh(tele, AnimPos(tele.start, <<tele.cx, tele.cy>>, 2))
                  ELSE /\ camChar' = AnimPos(tele.start, <<tele.cx, tele.cy>>, t)
                       /\ tele' = [tele EXCEPT !.t = t]
                       /\ UNCHANGED <<refreshes, netVars>>
    /\ UNCHANGED <<storeVars, probe, hubVars, lastRect, cam, panVars, flingVars, sideVars, nTele>>

\* refreshViewport has returned or thrown: the caret is placed if wanted
TeleportResumes ==
    /\ tele.pc = "refresh"
    /\ tele' = NoTele
    /\ IF tele.wantCaret
       THEN LET at == tileForChar(tele.cx, tele.cy)
                e == ensureTile(tiles, objs, at.tx, at.ty)
                car == [cx |-> tele.cx, cy |-> tele.cy, anchorCx |-> tele.cx]
            IN  /\ tiles' = e.tiles
                /\ objs' = e.objs
                /\ caret' = car
                /\ refCaret' = car
       ELSE UNCHANGED <<tiles, objs, caret, refCaret>>
    /\ UNCHANGED <<optimistic, pending, patches, inputQueue, fetches, inFlight,
                   nextFetch, server, hubQ, writes, refWrites, nIntents, nEnv>>
    /\ UNCHANGED <<probe, viewVars, panVars, flingVars, sideVars, camChar, nTele>>

NextTeleport ==
    \/ Teleport
    \/ AnimFrame
    \/ TeleportResumes

SpecTeleport == Init /\ [][NextTeleport]_vars

\* ------------------------------------------------------------ ensureTile
\* ensureTile(tx, ty) is called on the store as the edits have left it; the
\* probe keeps the arguments and the tile returned, n telling a call from the
\* one before it
CallEnsureTile ==
    \E c \in TileCoords :
        LET e == ensureTile(tiles, objs, c[1], c[2])
        IN  /\ Idle
            /\ tiles' = e.tiles
            /\ objs' = e.objs
            /\ probe' = [op |-> "ensureTile", tx |-> c[1], ty |-> c[2], t |-> e.t,
                          n |-> IF probe.op = "ensureTile" THEN 3 - probe.n ELSE 1]
            /\ UNCHANGED <<optimistic, pending, patches, inputQueue, caret, fetches,
                           inFlight, nextFetch, server, hubQ, writes, refCaret,
                           refWrites, nIntents, nEnv>>
            /\ UNCHANGED <<viewVars, panVars, flingVars, teleVars, sideVars>>

NextEnsure ==
    \/ Click
    \/ KeyChar
    \/ RunIntent
    \/ ServerPatch
    \/ PatchOk
    \/ CallEnsureTile

SpecEnsure == Init /\ [][NextEnsure]_vars

\* ----------------------------------------------------------- presence hints
\* the least time between two Typing invocations, in ms
TYPING_MIN_MS == 60

\* the time that passes before a call of sendTyping, in ms
TypingGaps == {30, 59, 60}

\* (mutant) the time of the last invocation is not kept
TypingStamp_Stale(last, t) == last

\* lastTypingSentAt.current = now
TypingStamp(last, t) == t

\* sendTyping(tx, ty, lx, ly) for a cell of tile k: nothing within
\* TYPING_MIN_MS of the last call let through; otherwise the time is kept and
\* hubSafeInvoke('Typing', ...) is called, its promise left alone
SendTyping ==
    \E gap \in TypingGaps, k \in Keys :
        LET t == clock + gap
            conn == hubState = "Connected"
            w == hubSafeInvoke(ViewState([id |-> 0, pc |-> "call"]), conn, "Typing", k)
        IN  /\ nTyping < MaxTyping
            /\ nTyping' = nTyping + 1
            /\ clock' = t
            /\ IF t - lastTypingSentAt < TYPING_MIN_MS
               THEN UNCHANGED <<lastTypingSentAt, typingSent, hubCalls, hubLog>>
               ELSE /\ lastTypingSentAt' = TypingStamp(lastTypingSentAt, t)
                    /\ hubCalls' = w.hubCalls
                    /\ hubLog' = w.hubLog
                    /\ typingSent' = IF conn THEN Append(typingSent, t) ELSE typingSent
            /\ UNCHANGED <<pipeVars, probe, panVars, flingVars, teleVars, joined, lastRect,
                           cam, refreshes, hubState, hubDowns, inputFailed>>

\* the oldest hub invocation is a Typing and completes; its rejection is
\* swallowed by the catch of hubSafeInvoke
TypingDone ==
    /\ hubCalls # <<>>
    /\ Head(hubCalls).method = "Typing"
    /\ hubCalls' = Tail(hubCalls)
    /\ UNCHANGED <<pipeVars, probe, panVars, flingVars, teleVars, sideVars, joined, lastRect,
                   cam, refreshes, hubState, hubLog, hubDowns>>

NextTyping ==
    \/ SendTyping
    \/ TypingDone
    \/ HubDown
    \/ HubUp
    \/ StartRefresh
    \/ ServerFetch
    \/ FetchHeaders
    \/ ViewFetchBody
    \/ ViewFetchAborted
    \/ HubCallDone

SpecTyping == Init /\ [][NextTyping]_vars

\* ------------------------------------------------ typing through an outage
\* The user types into one tile while requests of the client get lost: the
\* patch pipeline alone, with more keys and more lost requests than Spec has.
OutageKey ==
    \E ch \in TypedChars :
        EnqueueUpTo(<<[type |-> "char", ch |-> ch, color |-> FALSE]>>, MaxOutageKeys)

OutagePatchErr == PatchNetErrUpTo(MaxOutageErr)

OutageFetchErr == FetchNetErrUpTo(MaxOutageErr)

NextOutage ==
    \/ Click
    \/ OutageKey
    \/ RunIntent
    \/ ServerPatch
    \/ PatchOk
    \/ OutagePatchErr
    \/ ServerFetch
    \/ FetchHeaders
    \/ FetchBody
    \/ OutageFetchErr

SpecOutage == Init /\ [][NextOutage]_vars

\* ------------------------------------------------- an intent that throws
\* enqueueEdit keeps in inputQueue.current the promise of
\* inputQueue.current.then(async () => { await fn(); }) and returns a second
\* promise, with a catch, to its caller.  When fn throws, the promise kept is
\* rejected; a then chained on a rejected promise does not call its callback
\* and is rejected in turn.
ThrowKey ==
    \E ch \in TypedChars :
        EnqueueUpTo(<<[type |-> "char", ch |-> ch, color |-> FALSE]>>, MaxThrowKeys)

\* an intent is enqueued whose closure throws when it runs
ThrowingIntent ==
    EnqueueUpTo(<<[type |-> "throw", ch |-> Blank, color |-> FALSE]>>, MaxThrowKeys)

\* the callback of the next intent runs and fn throws: the promise of the
\* queue is rejected
IntentThrows ==
    /\ inputQueue # <<>>
    /\ ~inputFailed
    /\ Throws(NextIntent(inputQueue))
    /\ inputQueue' = Tail(inputQueue)
    /\ inputFailed' = TRUE
    /\ UNCHANGED <<probe, viewVars, panVars, flingVars, teleVars,
                   lastTypingSentAt, typingSent, clock, nTyping>>
    /\ UNCHANGED <<clientVars, optimistic, caret, writes, refCaret, refWrites,
                   nIntents, server, hubQ, nEnv>>

\* the next intent is chained on a rejected promise: its callback is not
\* called and its promise is rejected with the same reason
IntentSkipped ==
    /\ inputQueue # <<>>
    /\ inputFailed
    /\ inputQueue' = Tail(inputQueue)
    /\ UNCHANGED auxVars
    /\ UNCHANGED <<clientVars, optimistic, caret, writes, refCaret, refWrites,
                   nIntents, server, hubQ, nEnv>>

NextThrow ==
    \/ Click
    \/ ThrowKey
    \/ ThrowingIntent
    \/ RunIntent
    \/ IntentThrows
    \/ IntentSkipped
    \/ ServerPatch
    \/ PatchOk

SpecThrow == Init /\ [][NextThrow]_vars

\* ------------------------------------------------------ the protected plaza
\* The caret is moved with the arrow keys and Enter from the cell of the
\* click, and every edit path is tried where it stands.  The caret is kept in
\* a box of cells around the lower right corner of the plaza, which lies in
\* tile (1,0): the cells (23, 5) and (24, 5) of the box are protected.
CaretBox == [minX |-> 23, maxX |-> 25, minY |-> 5, maxY |-> 7]

InBox(cx, cy) ==
    /\ cx >= CaretBox.minX /\ cx <= CaretBox.maxX
    /\ cy >= CaretBox.minY /\ cy <= CaretBox.maxY

\* onKey, ArrowLeft / ArrowRight / ArrowUp / ArrowDown (dx, dy) and Enter:
\* the caret moves at once, not through the input queue
MoveCaretTo(cx, cy) ==
    /\ Idle
    /\ caret # NoCaret
    /\ InBox(cx, cy)
    /\ caret' = [caret EXCEPT !.cx = cx, !.cy = cy]
    /\ refCaret' = caret'
    /\ UNCHANGED auxVars
    /\ UNCHANGED <<clientVars, optimistic, inputQueue, writes, refWrites, nIntents,
                   server, hubQ, nEnv>>

ArrowKey ==
    \E d \in {<<-1, 0>>, <<1, 0>>, <<0, -1>>, <<0, 1>>} :
        MoveCaretTo(caret.cx + d[1], caret.cy + d[2])

EnterKey == MoveCaretTo(caret.anchorCx, caret.cy + 1)

ProtectKey(intents) == EnqueueUpTo(intents, MaxProtectKeys)

PlazaChar == \E ch \in TypedChars : ProtectKey(<<[type |-> "char", ch |-> ch, color |-> FALSE]>>)

PlazaBackspace == ProtectKey(<<[type |-> "back", ch |-> Blank, color |-> FALSE]>>)

PlazaMobileInput ==
    \E typed \in MobileTyped :
        ProtectKey([i \in 1..Len(typed) |-> [type |-> "char", ch |-> typed[i], color |-> TRUE]])

\* (mutant) the cell of the caret is not tested
DirectlyEditable_Unchecked(car) == TRUE

\* the test of onPaste, of the cut branch of onKey and of tw2tWriteChar
DirectlyEditable(car) == ~inProtected(car.cx, car.cy)

\* An edit made outside the input queue, at the cell of the caret: the local
\* write and queuePatch; the caret moves by step cells.
DirectEdit(ch, color, step) ==
    /\ Idle
    /\ caret # NoCaret
    /\ nIntents < MaxProtectKeys
    /\ nIntents' = nIntents + 1
    /\ IF DirectlyEditable(caret)
       THEN \E at \in {tileForChar(caret.cx, caret.cy)} :
            \E e \in {ensureTile(tiles, objs, at.tx, at.ty)} :
            \E k \in {key(at.tx, at.ty)} :
            \E os \in {[e.objs EXCEPT
                          ![e.t].data = LocalWrite(@, at.offset, ch),
                          ![e.t].color = IF color THEN setLocalColorAt(@, at.offset)
                                         ELSE @]} :
                /\ tiles' = e.tiles
                /\ objs' = os
                /\ optimistic' = setOptimistic(optimistic, k, at.offset, ch, color)
                /\ SetNet(queuePatch(NetState, os, e.t, at.offset, ch))
                /\ writes' = Append(writes, <<caret.cx, caret.cy, ch>>)
                /\ refWrites' = Append(refWrites, <<caret.cx, caret.cy, ch>>)
                /\ caret' = [caret EXCEPT !.cx = @ + step]
                /\ refCaret' = caret'
       ELSE UNCHANGED <<clientVars, optimistic, caret, refCaret, writes, refWrites>>
    /\ UNCHANGED auxVars
    /\ UNCHANGED <<inputQueue, server, hubQ, nEnv>>

\* onPaste: the first character of the clipboard, with the colour of the
\* HTML flavour when there is one
Paste == \E ch \in TypedChars, color \in BOOLEAN : DirectEdit(ch, color, 1)

\* onKey, Ctrl+X: the cell is blanked with the colour CLEAR_HEX
Cut == DirectEdit(Blank, TRUE, 0)

\* window.tw2tWriteChar(ch, color)
tw2tWriteChar == \E ch \in TypedChars, color \in BOOLEAN : DirectEdit(ch, color, 1)

NextProtect ==
    \/ Click
    \/ ArrowKey
    \/ EnterKey
    \/ PlazaChar
    \/ PlazaBackspace
    \/ PlazaMobileInput
    \/ RunIntent
    \/ Paste
    \/ Cut
    \/ tw2tWriteChar

SpecProtect == Init /\ [][NextProtect]_vars


\* ------------------------------------------------------------------- claims
RunsOf(k) == {q \in DOMAIN patches : patches[q].k = k}
Started(q) == patches[q].st # "waiting"
Failed(q) == patches[q].out \in {"conflict", "neterr"}
Drained(k) == inputQueue = <<>> /\ \A q \in RunsOf(k) : Settled(patches[q].st)

\* run r is the edit submitted next after run q for the same tile
NextEdit(q, r) ==
    /\ q < r /\ patches[q].k = patches[r].k
    /\ \A m \in DOMAIN patches : ~(q < m /\ m < r /\ patches[m].k = patches[q].k)

\* the client has nothing left to do: no intent waits, every run has settled,
\* no fetch is outstanding and no hub event is on its way
Quiescent ==
    /\ inputQueue = <<>>
    /\ \A q \in DOMAIN patches : Settled(patches[q].st)
    /\ fetches = {}
    /\ hubQ = <<>>

\* C1: no lost update.  For two or more edits of one tile at pairwise distinct
\* offsets, each submitted while the run before it was still pending, and none
\* of whose requests or corrective fetches was lost to a network error: once
\* every run of the tile has completed, the backend's data of the tile holds
\* every edit's character at its offset.
C1_NoLostUpdate ==
    \A k \in Keys :
        LET rs == RunsOf(k)
        IN  ( /\ Drained(k)
              /\ Cardinality(rs) >= 2
              /\ \A q, r \in rs : q # r => patches[q].offset # patches[r].offset
              /\ \A r \in rs : (\E q \in rs : q < r) => patches[r].prev # 0
              /\ \A q \in rs : /\ patches[q].out \in {"ok", "conflict"}
                                /\ patches[q].st = "fulfilled" )
            => \A q \in rs : CharAt(server[k].data, patches[q].offset) = patches[q].ch

\* C2: for each tile key the runs are started strictly one at a time and in
\* submission order: a later run has sent its request (or begun its corrective
\* fetch) only when every earlier run of the key has settled, and at most one
\* patch request or corrective fetch of a key is in flight.
C2_OneAtATimeInOrder ==
    /\ \A q, r \in DOMAIN patches :
          (q < r /\ patches[q].k = patches[r].k /\ Started(r)) => Settled(patches[q].st)
    /\ \A k \in Keys :
          Cardinality({q \in RunsOf(k) : patches[q].req # "none"})
          + Cardinality({f \in fetches : f.kind = "fix" /\ patches[f.p].k = k}) <= 1

\* C2 witness: the first run of a key failed and settled, the second run of
\* the same key has its request in flight.
C2_Witness ==
    \E q, r \in DOMAIN patches :
        /\ q < r /\ patches[q].k = patches[r].k
        /\ Failed(q) /\ Settled(patches[q].st)
        /\ patches[r].st = "patching" /\ patches[r].req = "sent"

\* C3: the knownVersion sent for edit N+1 of a tile is never older than the
\* version the backend returned for edit N of the same tile.
C3_KnownVersionNotOlder ==
    \A q, r \in DOMAIN patches :
        (NextEdit(q, r) /\ patches[q].out = "ok" /\ patches[r].kv # NoVersion)
            => patches[r].kv >= patches[q].rv

\* C4: in the step in which a patch succeeds, the tile stored under the key has
\* the version the backend returned, and the overlay of the key holds no entry
\* for the patched cell.
C4_SuccessAdoptsVersion ==
    [][\A q \in DOMAIN patches :
          (patches[q].out # "ok" /\ patches'[q].out = "ok") =>
              /\ objs'[tiles'[patches[q].k]].version = patches[q].rv
              /\ patches[q].offset \notin DOMAIN optimistic'[patches[q].k]]_vars

\* C5: in the step in which the corrective fetch of an edit rejected with a
\* version conflict returns the tile, a second edit of the tile (at another
\* offset) being queued behind it: the stored tile has the version of the
\* fetched snapshot and the snapshot's character at every cell, the rejected
\* edit's cell included, except the cells of the edits still queued.
C5_ResyncShowsServerData ==
    [][\A f \in fetches :
          ( /\ f.kind = "fix" /\ f.st = "body" /\ f \notin fetches'
            /\ patches[f.p].out = "conflict"
            /\ patches[f.p].k \in DOMAIN f.snap
            /\ \E r \in DOMAIN patches :
                  /\ patches[r].prev = f.p
                  /\ patches[r].offset # patches[f.p].offset )
          => LET k == patches[f.p].k
                 t == objs'[tiles'[k]]
                 queued == {patches[r].offset :
                               r \in {x \in RunsOf(k) : x > f.p}}
             IN  /\ t.version = f.snap[k].version
                 /\ \A i \in 0..(TILE_CHARS - 1) :
                       i \notin queued => CharAt(t.data, i) = CharAt(f.snap[k].data, i)]_vars

C7_ResyncIsBaseline ==
    \A q, r \in DOMAIN patches :
        ( /\ patches[r].prev = q
          /\ patches[q].resync # NoVersion
          /\ patches[r].kv # NoVersion )
        => patches[r].kv = patches[q].resync

\* C8: an edit the backend rejected with a version conflict is sent again after
\* the refetch and is accepted: when the client has nothing left to do, every
\* edit that was rejected with a conflict and whose refetch returned the tile
\* has been accepted by the backend.
C8_RejectedEditRetried ==
    Quiescent =>
        \A q \in DOMAIN patches :
            (patches[q].out = "conflict" /\ patches[q].resync # NoVersion)
                => patches[q].accepted

\* C9: the intents run in the order they were enqueued: the cell writes made
\* so far are a prefix of those of a sequential run of the intents, and once
\* the queue has drained the caret and the writes are those of that run.
C9_InputOrder ==
    /\ Len(writes) <= Len(refWrites)
    /\ \A i \in 1..Len(writes) : writes[i] = refWrites[i]
    /\ inputQueue = <<>> => caret = refCaret /\ writes = refWrites

\* C9 witness: two intents enqueued together have both run.
C9_Witness ==
    /\ inputQueue = <<>>
    /\ writes = <<<<24, 7, "a">>, <<25, 7, "b">>>>

\* C10: in the step in which an intent makes its local edit, the stored tile
\* holds the character at the offset, the overlay of the tile records it for
\* the offset and exactly one run is enqueued for it; and in the step in which
\* a run sends its request, the knownVersion it sends is the version of the
\* tile stored under its key.
C10_LocalEditImmediate ==
    [][/\ Len(writes') = Len(writes) + 1 =>
             LET w == writes'[Len(writes')]
                 at == tileForChar(w[1], w[2])
                 k == key(at.tx, at.ty)
             IN  /\ CharAt(objs'[tiles'[k]].data, at.offset) = w[3]
                 /\ at.offset \in DOMAIN optimistic'[k]
                 /\ optimistic'[k][at.offset].ch = w[3]
                 /\ Len(patches') = Len(patches) + 1
                 /\ patches'[Len(patches')].k = k
                 /\ patches'[Len(patches')].offset = at.offset
                 /\ patches'[Len(patches')].ch = w[3]
       /\ \A q \in DOMAIN patches' :
             ( /\ patches'[q].sends = 1
               /\ (q \in DOMAIN patches => patches[q].sends = 0) )
             => patches'[q].kv = objs'[tiles'[patches'[q].k]].version]_vars

\* C11: an overlay entry exists only while a patch for its cell is queued or in
\* flight: whenever no run of a tile is pending, the overlay of the tile is
\* empty.
C11_OverlayOnlyWhilePending ==
    \A k \in Keys :
        (inputQueue = <<>> /\ pending[k] = 0) => DOMAIN optimistic[k] = {}

C13_NonResidentDropped ==
    [][(Len(hubQ') < Len(hubQ) /\ tiles[Head(hubQ).k] = NoObj)
          => /\ tiles' = tiles
             /\ objs' = objs
             /\ optimistic' = optimistic
             /\ pending' = pending]_vars

\* C13 witness: another client's range patch was broadcast (the backend holds
\* its character), its event has been handled, and the tile is not resident.
C13_Witness ==
    \E k \in Keys :
        /\ CharAt(server[k].data, 120) = "r"
        /\ hubQ = <<>>
        /\ tiles[k] = NoObj

C16_WrongSizedRebuilt ==
    [][\A f \in fetches :
          (f.st = "body" /\ f \notin fetches') =>
              \A k \in DOMAIN f.snap :
                  (WrongSized(f.snap[k]) /\ tiles'[k] # NoObj) =>
                      LET t == objs'[tiles'[k]]
                      IN  /\ t.data.len = TILE_CHARS
                          /\ t.color = COLOR_CHARS
                          /\ \A c \in 0..(TILE_CHARS - 1) :
                                c \notin DOMAIN optimistic'[k] => CharAt(t.data, c) = Blank]_vars

\* C17: for every integer cell (cx, cy), negative coordinates included,
\* tileForChar gives lx in [0, TILE_W), ly in [0, TILE_H) and the offset
\* ly * TILE_W + lx in [0, TILE_CHARS), and the cell of (tx, ty, lx, ly) is
\* (cx, cy) again.
C17_TileForCharRoundTrip ==
    probe.op = "tileForChar" =>
        LET at == probe.at
        IN  /\ at.lx \in 0..(TILE_W - 1)
            /\ at.ly \in 0..(TILE_H - 1)
            /\ at.offset = at.ly * TILE_W + at.lx
            /\ at.offset \in 0..(TILE_CHARS - 1)
            /\ charOfTile(at.tx, at.ty, at.lx, at.ly) = [cx |-> probe.cx, cy |-> probe.cy]

\* C17 witness: a cell left of and above the origin, not on a tile boundary.
C17_Witness ==
    /\ probe.op = "tileForChar"
    /\ probe.cx = -17 /\ probe.cy = -1
    /\ probe.at.tx = -2 /\ probe.at.ty = -1
    /\ probe.at.lx = 15 /\ probe.at.ly = 15

\* C18: key is injective over integer tile coordinates (the origin, negative
\* and very large ones included): two tiles with the same key are the same
\* tile; and splitting a key on ':' and reading the parts as numbers gives the
\* coordinates back.
C18_KeyInjective ==
    probe.op = "key" =>
        /\ probe.ka = probe.kb => probe.a = probe.b
        /\ probe.pa = probe.a
        /\ probe.pb = probe.b

\* C18 witness: two different tiles whose numerals concatenate to the same
\* digits have different keys, and a key of the largest negative coordinate
\* is read back.
C18_Witness ==
    /\ probe.op = "key"
    /\ probe.a = <<1, 21>> /\ probe.b = <<-MaxTile, 12>>
    /\ probe.ka # probe.kb
    /\ probe.pb = <<-MaxTile, 12>>

\* the number of invocations of method for tile k that invocation id of
\* refreshViewport has sent, in log
SentBy(log, id, method, k) ==
    Len(SelectSeq(log, LAMBDA c : c.by = id /\ c.method = method /\ c.k = k))

\* invocation id of refreshViewport ends in this step, and no other invocation
\* ran while it did
CompletesAlone(id) ==
    /\ id \in 1..Len(refreshes)
    /\ refreshes[id].pc # "done"
    /\ refreshes'[id].pc = "done"
    /\ refreshes'[id].alone

\* C19: a refreshViewport that runs to completion without another refresh
\* interleaving ends with joined equal to the keys of its rectangle, having
\* sent JoinTile once for each key newly in the rectangle, LeaveTile once for
\* each joined key outside it, and nothing for the keys joined and still inside.
C19_RefreshAppliesDiff ==
    [][\A id \in 1..MaxRefresh :
         CompletesAlone(id) =>
            LET r == refreshes'[id]
                need == SetOf(r.need)
                before == SetOf(r.before)
            IN  /\ SetOf(joined') = need
                /\ \A k \in Keys :
                     /\ SentBy(hubLog', id, "JoinTile", k)
                           = (IF k \in need \ before THEN 1 ELSE 0)
                     /\ SentBy(hubLog', id, "LeaveTile", k)
                           = (IF k \in before \ need THEN 1 ELSE 0)]_vars

\* the same statement for the invocations that run while the hub connection
\* has never been lost
RefreshAppliesDiff_Connected ==
    [][\A id \in 1..MaxRefresh :
         (CompletesAlone(id) /\ hubDowns' = 0) =>
            LET r == refreshes'[id]
                need == SetOf(r.need)
                before == SetOf(r.before)
            IN  /\ SetOf(joined') = need
                /\ \A k \in Keys :
                     /\ SentBy(hubLog', id, "JoinTile", k)
                           = (IF k \in need \ before THEN 1 ELSE 0)
                     /\ SentBy(hubLog', id, "LeaveTile", k)
                           = (IF k \in before \ need THEN 1 ELSE 0)]_vars

\* every invocation of refreshViewport has run to its end, the latest of them
\* overlapped an older one, and the hub connection was never lost
OverlappedAllDone ==
    /\ Len(refreshes) >= 2
    /\ \A i \in 1..Len(refreshes) : refreshes[i].pc = "done"
    /\ ~refreshes[Len(refreshes)].alone
    /\ hubDowns = 0

\* C20: when several refreshViewport invocations overlap, once all have
\* completed the joined set and lastRect are those of the rectangle of the most
\* recently started refresh: an older refresh never overwrites a newer one.
C20_NewestRefreshWins ==
    OverlappedAllDone =>
        /\ SetOf(joined) = SetOf(refreshes[Len(refreshes)].need)
        /\ lastRect = refreshes[Len(refreshes)].rect

\* the calls of fetchTiles that have not returned and were not aborted
LiveFetches == {f \in fetches : f.st \in {"req", "resp", "body"}}

\* an aborted call of fetchTiles returns in this step
AbortedReturns == \E f \in fetches : f.st = "aborted" /\ f \notin fetches'

\* C21: starting a new tile-range fetch aborts the previous one still in
\* flight: at most one call of fetchTiles that was not aborted exists at any
\* time, and the return of an aborted call writes no tile to the Tile Store.
C21_NewFetchAbortsPrevious ==
    /\ Cardinality(LiveFetches) <= 1
    /\ \A f \in fetches : f.st = "aborted" => f.snap = <<>>

\* the return of an aborted call leaves the Tile Store as it was
AbortedFetchWritesNothing == [][AbortedReturns => UNCHANGED <<tiles, objs>>]_vars

\* a motion sample is handled in this step
IsMotionSample == nSamples' = nSamples + 1

\* C22: at most one viewport-refresh timer is pending at any time, and a timer
\* is scheduled only by a motion sample whose tile rectangle differs from
\* lastRect, so a burst of rectangle changes while the timer is pending causes
\* a single refreshViewport.
C22_OneTimerPending ==
    /\ [](timers <= 1 /\ (fetchTimer <=> timers = 1))
    /\ [][timers' > timers => (IsMotionSample /\ cam' # lastRect)]_vars
    /\ [][timers' < timers => Len(refreshes') = Len(refreshes) + 1]_vars

\* a timer is pending, no refreshViewport has been called since it was set,
\* and the camera has been moved again, to another rectangle
C22_Witness ==
    /\ timers = 1
    /\ nSamples >= 2
    /\ refreshes = <<>>
    /\ lastRect = cam
    /\ cam # <<1, 1, 0, 0>>

\* C23: a motion sample whose tile rectangle equals the rectangle of the
\* previous sample schedules no refresh, issues no fetch and changes no
\* subscription.
C23_SameRectNoRefresh ==
    [][(IsMotionSample /\ nSamples > 0 /\ cam' = cam)
         => /\ timers' = timers
            /\ fetches' = fetches
            /\ joined' = joined
            /\ hubLog' = hubLog]_vars

\* the position of the pointer at time t: that of the last sample up to t
RECURSIVE PointerAt(_, _, _)
PointerAt(buf, i, t) ==
    IF i > 1 /\ buf[i].t > t THEN PointerAt(buf, i - 1, t) ELSE buf[i].x

\* how far the pointer moved during the QUIET_WINDOW_MS before time t
MovedInQuietWindow(buf, t) ==
    Abs(buf[Len(buf)].x - PointerAt(buf, Len(buf), t - QUIET_WINDOW_MS))

\* the drag is released in this step
IsRelease == dragging # NoDrag /\ dragging' = NoDrag

\* C24: when a drag is released and the pointer moved less than the
\* quiet-distance threshold during the last 25 ms, no inertial fling starts,
\* whatever the earlier velocity, and refreshViewport is called once, in the
\* release itself.
C24_QuietReleaseNoFling ==
    [][(IsRelease /\ MovedInQuietWindow(samples, now') < QUIET_DIST_PX)
         => /\ ~isInertial'
            /\ rafs' = rafs
            /\ Len(refreshes') = Len(refreshes) + 1]_vars

\* the same with the window counted back from the last sample, not from the
\* release
QuietSamplesNoFling ==
    [][(IsRelease /\ MovedInQuietWindow(samples, samples[Len(samples)].t) < QUIET_DIST_PX)
         => /\ ~isInertial'
            /\ rafs' = rafs
            /\ Len(refreshes') = Len(refreshes) + 1]_vars

\* a step of a running fling is taken
IsFlingStep == isInertial /\ velocity' # velocity

\* the fling ends in this step because the speed has dropped below the floor
FlingEndsBelowFloor == isInertial /\ ~isInertial' /\ dragging' = dragging

\* C25: every inertial fling terminates: each step advances the camera by
\* velocity * dt and then decays the velocity, the loop stops as soon as the
\* speed is below the floor, and on that termination exactly one final
\* refreshViewport is triggered.
C25_FlingTerminates ==
    /\ isInertial ~> ~isInertial
    /\ [](isInertial => ~BelowFloor(velocity))
    /\ [][IsFlingStep =>
            /\ camX' = camX - velocity * Min(frameMs, MaxStepMs)
            /\ Abs(velocity') < Abs(velocity)
            /\ ~isInertial' <=> BelowFloor(velocity')]_vars
    /\ [][FlingEndsBelowFloor => Len(refreshes') = Len(refreshes) + 1]_vars
    /\ [][(Len(refreshes') > Len(refreshes) /\ rafs' < rafs) => FlingEndsBelowFloor]_vars

\* a fling has run down to the floor and refreshViewport has been called
C25_Witness ==
    /\ ~isInertial
    /\ rafs = 0
    /\ dragging = NoDrag
    /\ velocity # 0
    /\ BelowFloor(velocity)
    /\ Len(refreshes) >= 1
    /\ refreshes[Len(refreshes)].rect = currentTileRect(camX)
    /\ camX # CamStart

\* tw2tTeleport calls refreshViewport in this step
TeleportRefreshes == tele'.pc = "refresh" /\ tele.pc # "refresh"

\* C26: tw2tTeleport clamps the target character coordinates to
\* [-MAX_CHARS_ABS, MAX_CHARS_ABS], ends the camera movement exactly on the
\* target, refreshes the viewport only after the camera has arrived, and places
\* the caret at the destination only if placeCaret is set and the destination
\* is outside the protected region.
C26_TeleportArrives ==
    /\ [](tele # NoTele =>
            /\ tele.cx \in (-MAX_CHARS_ABS)..MAX_CHARS_ABS
            /\ tele.cy \in (-MAX_CHARS_ABS)..MAX_CHARS_ABS)
    /\ [][TeleportRefreshes =>
            /\ camChar' = <<tele'.cx, tele'.cy>>
            /\ refreshes'[Len(refreshes')].rect = TeleRect(<<tele'.cx, tele'.cy>>)]_vars
    /\ [][Len(refreshes') > Len(refreshes) => TeleportRefreshes]_vars
    /\ [][caret' # caret =>
            /\ tele.pc = "refresh"
            /\ tele.opts[3]
            /\ ~inProtected(tele.cx, tele.cy)
            /\ caret'.cx = tele.cx /\ caret'.cy = tele.cy]_vars

\* the same for the calls whose animateMs is a number and that start with
\* numbers in the camera
TeleportArrives_Numbers ==
    /\ [][(TeleportRefreshes /\ tele'.ms # NaN /\ tele'.start[1] # NaN) =>
            /\ camChar' = <<tele'.cx, tele'.cy>>
            /\ refreshes'[Len(refreshes')].rect = TeleRect(<<tele'.cx, tele'.cy>>)]_vars

\* a JoinTile for tile k has been sent to the hub while it was connected
JoinSent(log, k) ==
    \E i \in 1..Len(log) : log[i].method = "JoinTile" /\ log[i].k = k

\* invocation id of refreshViewport ends in this step
Completes(id) ==
    /\ id \in 1..Len(refreshes)
    /\ refreshes[id].pc # "done"
    /\ refreshes'[id].pc = "done"

\* C27: a tile key is recorded in joined only when a JoinTile for it was sent
\* to a connected hub; so when a refreshViewport completes while the hub is
\* connected, a JoinTile has been sent for every tile key of its rectangle.
C27_JoinedOnlyAfterJoinTile ==
    /\ [](\A k \in SetOf(joined) : JoinSent(hubLog, k))
    /\ [][\A id \in 1..MaxRefresh :
            (Completes(id) /\ hubState' = "Connected") =>
                \A k \in SetOf(refreshes'[id].need) : JoinSent(hubLog', k)]_vars

\* the same while the connection has never been lost
JoinedOnlyAfterJoinTile_Connected ==
    /\ [](hubDowns = 0 => \A k \in SetOf(joined) : JoinSent(hubLog, k))
    /\ [][\A id \in 1..MaxRefresh :
            (Completes(id) /\ hubDowns' = 0) =>
                \A k \in SetOf(refreshes'[id].need) : JoinSent(hubLog', k)]_vars

\* a refreshViewport has completed with the hub connected, and a key of its
\* rectangle is in joined without any JoinTile having been sent for it
JoinedWithoutJoinTile ==
    /\ hubState = "Connected"
    /\ \E id \in 1..Len(refreshes) :
          /\ refreshes[id].pc = "done"
          /\ lastRect = refreshes[id].rect
          /\ \E k \in SetOf(refreshes[id].need) :
                InSeq(k, joined) /\ ~JoinSent(hubLog, k)

\* tile k as the store holds it
StoredTile(ts, os, k) == IF ts[k] = NoObj THEN NoObj ELSE os[ts[k]]

\* the corrective fetch of run q fails in this step, after its patch had failed
FailsTwice(q) ==
    /\ patches[q].st = "fetching"
    /\ FailedTwice(patches'[q], patches[q].k)

\* C28: if both a patch and its corrective fetch fail, the stored tile keeps
\* its last local data and version, and the next user edit to that tile issues
\* a new patchTile request.
C28_NextEditPatchesAgain ==
    /\ [][\A q \in DOMAIN patches :
            FailsTwice(q) =>
                StoredTile(tiles', objs', patches[q].k) = StoredTile(tiles, objs, patches[q].k)]_vars
    /\ [](\A q \in DOMAIN patches :
            patches[q].afterFailure =>
                /\ patches[q].out # "skipped"
                /\ patches[q].st # "waiting" => patches[q].sends = 1)

\* the same for an edit made while no run of the tile is pending: its
\* patchTile request leaves in the step that queues it
NextEditPatchesAgain_NothingPending ==
    /\ [][\A q \in DOMAIN patches :
            FailsTwice(q) =>
                StoredTile(tiles', objs', patches[q].k) = StoredTile(tiles, objs, patches[q].k)]_vars
    /\ [][\A k \in Keys :
            (/\ Len(patches') = Len(patches) + 1
             /\ patches'[Len(patches')].k = k
             /\ patches'[Len(patches')].afterFailure
             /\ pending[k] = 0) =>
                /\ patches'[Len(patches')].st = "patching"
                /\ patches'[Len(patches')].req = "sent"
                /\ patches'[Len(patches')].sends = 1
                /\ patches'[Len(patches')].kv = StoredTile(tiles, objs, k).version]_vars

\* an edit made after a run of its tile had failed twice never sent a request
EditAfterFailureSkipped ==
    \E q \in DOMAIN patches :
        /\ patches[q].afterFailure
        /\ patches[q].out = "skipped"
        /\ patches[q].sends = 0

\* the patch request or the corrective fetch of run p is out and unanswered
InFlightRun(p) == patches[p].st \in {"patching", "fetching"}

\* a run of a tile other than k is out and unanswered
StuckElsewhere(k) == \E p \in DOMAIN patches : patches[p].k # k /\ InFlightRun(p)

\* C29: a patch or corrective fetch of one tile that does not complete holds
\* back only the later patches of the same tile key: a run waits only for an
\* unsettled run of its own key, the input queue runs the intents it holds
\* whether or not any request is ever answered (SpecStoreFair is fair to the
\* input queue only), and an intent that runs while a run of another tile is
\* unanswered
\* makes its local write, records it in the overlay and, no run of its own
\* tile being pending, sends its patch in the same step.
C29_StuckTileBlocksOnlyItself ==
    /\ [](\A q \in DOMAIN patches :
            patches[q].st = "waiting" =>
                /\ patches[q].prev # 0
                /\ patches[patches[q].prev].k = patches[q].k
                /\ ~Settled(patches[patches[q].prev].st))
    /\ (inputQueue # <<>>) ~> (inputQueue = <<>>)
    /\ [][Len(writes') = Len(writes) + 1 =>
             LET w == writes'[Len(writes')]
                 at == tileForChar(w[1], w[2])
                 k == key(at.tx, at.ty)
                 q == Len(patches')
             IN  StuckElsewhere(k) =>
                    /\ CharAt(objs'[tiles'[k]].data, at.offset) = w[3]
                    /\ at.offset \in DOMAIN optimistic'[k]
                    /\ q = Len(patches) + 1
                    /\ patches'[q].k = k
                    /\ pending[k] = 0 =>
                          patches'[q].st = "patching" /\ patches'[q].req = "sent"]_vars

\* the corrective fetch of a run of one tile is still unanswered, and a run of
\* another tile queued after it has had its patch accepted and has settled
C29_Witness ==
    \E p, q \in DOMAIN patches :
        /\ p < q
        /\ patches[p].k # patches[q].k
        /\ patches[p].st = "fetching"
        /\ patches[q].st = "fulfilled"
        /\ patches[q].out = "ok"
        /\ inputQueue = <<>>

\* the response of viewport fetch f is merged into the store in this step
ViewMerged(f) == f.kind = "view" /\ f.st = "body" /\ f \notin fetches'

SameTile(a, b) == a.data = b.data /\ a.color = b.color /\ a.version = b.version

\* C30: re-fetching a tile whose server state has not changed leaves the
\* overlay unchanged and yields the same stored data, color and version as the
\* previous fetch did, and each cell with a pending optimistic edit still
\* holds the character of that edit: merging the response of a viewport fetch
\* once more into the store it has just been merged into changes no tile.
C30_RefetchIdempotent ==
    [][\A f \in fetches :
          ViewMerged(f) =>
             /\ optimistic' = optimistic
             /\ LET again == MergeFetched(tiles', objs', optimistic', f.snap)
                IN  \A k \in DOMAIN f.snap :
                       /\ tiles'[k] # NoObj
                       /\ again.tiles[k] = tiles'[k]
                       /\ SameTile(again.objs[again.tiles[k]], objs'[tiles'[k]])
                       /\ \A o \in DOMAIN optimistic'[k] :
                             CharAt(again.objs[again.tiles[k]].data, o)
                                = optimistic'[k][o].ch]_vars

\* two viewport fetches have been issued and have ended, the backend holds the
\* tile at the version the store has, and an edit of the tile is still in
\* the overlay
C30_Witness ==
    \E k \in Keys :
        /\ nextFetch = 2
        /\ fetches = {}
        /\ \A q \in DOMAIN patches : patches[q].fixes = 0
        /\ server[k].created
        /\ tiles[k] # NoObj
        /\ objs[tiles[k]].version = server[k].version
        /\ DOMAIN optimistic[k] # {}
        /\ \A o \in DOMAIN optimistic[k] :
              CharAt(objs[tiles[k]].data, o) = optimistic[k][o].ch
        /\ \E o \in DOMAIN server[k].data.cells :
              /\ o \notin DOMAIN optimistic[k]
              /\ CharAt(objs[tiles[k]].data, o) = CharAt(server[k].data, o)

\* sendTyping is called in this step
IsSendTyping == nTyping' = nTyping + 1

\* C31: consecutive Typing invocations sent to the hub are at least 60 ms
\* apart, and a sendTyping call made within 60 ms of the last one let through
\* sends nothing.
C31_TypingRateLimited ==
    /\ [](\A i, j \in 1..Len(typingSent) :
            i < j => typingSent[j] - typingSent[i] >= TYPING_MIN_MS)
    /\ [][(IsSendTyping /\ clock' - lastTypingSentAt < TYPING_MIN_MS) =>
            /\ hubLog' = hubLog
            /\ hubCalls' = hubCalls
            /\ typingSent' = typingSent
            /\ lastTypingSentAt' = lastTypingSentAt]_vars
    /\ [][Len(typingSent') > Len(typingSent) =>
            /\ IsSendTyping
            /\ typingSent' = Append(typingSent, clock')
            /\ Len(hubLog') = Len(hubLog) + 1
            /\ hubLog'[Len(hubLog')].method = "Typing"]_vars

\* two Typing invocations have been sent 60 ms apart, and a call in between
\* has sent nothing
C31_Witness ==
    /\ Len(typingSent) = 2
    /\ typingSent[2] - typingSent[1] = TYPING_MIN_MS
    /\ nTyping = 3
    /\ Len(SelectSeq(hubLog, LAMBDA c : c.method = "Typing")) = 2

\* C32: while the hub is not in the Connected state, the hub invocations of
\* the core (Typing, JoinTile, LeaveTile) send nothing and resolve without
\* throwing or rejecting: no invocation is sent in such a step, a sendTyping
\* call let through returns after keeping its time, and a refreshViewport
\* whose loops run goes through them to its end.
C32_DisconnectedHubCallsAreNoOps ==
    /\ [][hubState # "Connected" =>
            /\ hubLog' = hubLog
            /\ Len(hubCalls') <= Len(hubCalls)]_vars
    /\ [][(hubState # "Connected" /\ IsSendTyping
                /\ clock' - lastTypingSentAt >= TYPING_MIN_MS) =>
            lastTypingSentAt' = clock']_vars
    /\ [][hubState # "Connected" =>
            \A id \in 1..Len(refreshes) :
                refreshes'[id].pc # refreshes[id].pc =>
                    /\ refreshes'[id].pc = "done"
                    /\ lastRect' = refreshes[id].rect]_vars

\* with the hub not connected, a sendTyping call has been let through and a
\* refreshViewport has run to its end, and nothing has been sent to the hub
C32_Witness ==
    /\ hubState # "Connected"
    /\ hubLog = <<>>
    /\ hubCalls = <<>>
    /\ nTyping >= 1
    /\ lastTypingSentAt = clock
    /\ clock >= TYPING_MIN_MS
    /\ \E id \in 1..Len(refreshes) :
          /\ refreshes[id].pc = "done"
          /\ Len(refreshes[id].need) > 0
          /\ SetOf(joined) = SetOf(refreshes[id].need)

\* ensureTile is called in this step
IsEnsureTile == probe'.op = "ensureTile" /\ probe' # probe

\* C33: ensureTile(x, y) returns the resident tile and leaves the store as it
\* is when the key is present; otherwise it creates a blank tile (W*H spaces,
\* a color string of W*H*6 characters, version 0), stores it under the key
\* and returns it; a second call gives the same store and the same tile.
C33_EnsureTileIdempotent ==
    [][IsEnsureTile =>
         LET k == key(probe'.tx, probe'.ty)
         IN  /\ IF tiles[k] # NoObj
                THEN /\ tiles' = tiles
                     /\ objs' = objs
                     /\ probe'.t = tiles[k]
                ELSE /\ probe'.t = Len(objs) + 1
                     /\ objs' = Append(objs, [x |-> probe'.tx, y |-> probe'.ty,
                                               data |-> Str([i \in 1..TILE_CHARS |-> Blank]),
                                               color |-> TILE_CHARS * 6,
                                               version |-> 0])
                     /\ tiles' = [tiles EXCEPT ![k] = probe'.t]
             /\ objs'[tiles'[k]].data.len = TILE_W * TILE_H
             /\ ensureTile(tiles', objs', probe'.tx, probe'.ty)
                   = [tiles |-> tiles', objs |-> objs', t |-> probe'.t]]_vars

\* ensureTile has been called for a tile that was not resident and then for
\* a resident tile that edits have changed
C33_Witness ==
    /\ probe.op = "ensureTile"
    /\ \A k \in Keys : tiles[k] # NoObj
    /\ Len(objs) = 2
    /\ LET t == objs[probe.t]
       IN  /\ t.version > 0
           /\ t.data # BlankData
    /\ \E k \in Keys : objs[tiles[k]] = NewTile(CoordOf(k)[1], CoordOf(k)[2], BlankData, COLOR_CHARS, 0)

\* every run has had its patch accepted and has settled, no intent is waiting
AllAccepted ==
    /\ inputQueue = <<>>
    /\ patches # <<>>
    /\ \A q \in DOMAIN patches : patches[q].st = "fulfilled" /\ patches[q].out = "ok"

\* the backend has changed tile k by the patches of this client only
NoRemoteEdit(k) == server[k].version = Cardinality(RunsOf(k))

\* the stored tile of key k has the data and the version of the backend
InSync(ts, os, k) ==
    /\ ts[k] # NoObj
    /\ os[ts[k]].data = server[k].data
    /\ os[ts[k]].version = server[k].version

\* C34: once all patch queues have drained with every patch accepted, no
\* remote edit and no failure having occurred, each edited tile has locally
\* the data and the version the backend has, whatever viewport fetch
\* responses were interleaved with the patch responses.
C34_DrainedMeansInSync ==
    (AllAccepted /\ fetches = {} /\ hubQ = <<>>) =>
        \A k \in Keys :
            (RunsOf(k) # {} /\ NoRemoteEdit(k)) => InSync(tiles, objs, k)

\* the edits of tile k went to pairwise distinct cells
DistinctCells(k) ==
    \A q, r \in RunsOf(k) : q # r => patches[q].offset # patches[r].offset

\* the same in the step in which the last patch response arrives, for the
\* tiles whose edits went to distinct cells
DrainedMeansInSync_AtLastResponse ==
    [][(~AllAccepted /\ AllAccepted') =>
          \A k \in Keys :
              (RunsOf(k) # {} /\ NoRemoteEdit(k) /\ DistinctCells(k))
                  => InSync(tiles', objs', k)]_vars

(***************************************************************************)
(* C35: versions of resident tiles                                         *)
(***************************************************************************)
Resident(ts, k) == ts[k] # NoObj

VersionOf(ts, os, k) == os[ts[k]].version

\* C35: with backend versions that only grow and tilePatched events
\* delivered in version order, no step (patch response, viewport-fetch
\* response, corrective fetch, remote event) lowers the version of a tile
\* that is resident before and after it.
C35_VersionNeverDecreases ==
    [][\A k \in Keys :
          (Resident(tiles, k) /\ Resident(tiles', k))
              => VersionOf(tiles', objs', k) >= VersionOf(tiles, objs, k)]_vars

\* The backend's versions only grow in every step of the model.
ServerVersionsGrow ==
    [][\A k \in Keys : server'[k].version >= server[k].version]_vars

\* tilePatched events of one tile wait in the order of their versions.
EventsInVersionOrder ==
    \A i, j \in DOMAIN hubQ :
        (i < j /\ hubQ[i].k = hubQ[j].k) => hubQ[i].version <= hubQ[j].version


(***************************************************************************)
(* C36: two queued edits of one cell                                       *)
(***************************************************************************)
\* run r is the latest edit of its cell
LatestAtCell(r) ==
    \A m \in RunsOf(patches[r].k) : patches[m].offset = patches[r].offset => m <= r

\* run q, confirmed, was queued before run r for the same cell, and r is the
\* latest edit of the cell and is not settled yet
ConfirmedBeforeLater(q, r) ==
    /\ q < r
    /\ patches[q].k = patches[r].k
    /\ patches[q].offset = patches[r].offset
    /\ patches[q].out = "ok"
    /\ LatestAtCell(r)
    /\ ~Settled(patches[r].st)

HasOverlayEntry(r) ==
    /\ patches[r].offset \in DOMAIN optimistic[patches[r].k]
    /\ optimistic[patches[r].k][patches[r].offset].ch = patches[r].ch

ShowsEdit(r) ==
    Resident(tiles, patches[r].k)
        => CharAt(objs[tiles[patches[r].k]].data, patches[r].offset) = patches[r].ch

\* C36: when two edits of one cell are queued, the confirmation of the
\* earlier one leaves the overlay entry of the later one in place, and the
\* cell shows the later character, until the later edit is confirmed.
C36_LaterEditKeepsOverlay ==
    \A q, r \in DOMAIN patches :
        ConfirmedBeforeLater(q, r) => (HasOverlayEntry(r) /\ ShowsEdit(r))

\* The cell itself, without the overlay entry.
LaterEditShown ==
    \A q, r \in DOMAIN patches : ConfirmedBeforeLater(q, r) => ShowsEdit(r)


(***************************************************************************)
(* C37: corrective fetches and viewport fetches                            *)
(***************************************************************************)
\* fetch f, on the wire before the step, is aborted by the step
AbortedNow(f) ==
    /\ f.st \in {"req", "resp"}
    /\ \E g \in fetches' : g.id = f.id /\ g.st = "aborted"

\* the kinds of the calls of fetchTiles made by the step
KindsCalled == {g.kind : g \in {x \in fetches' : x.id > nextFetch}}

\* C37: a corrective fetch of queuePatch and a viewport fetch of
\* refreshViewport do not cancel one another: no call of fetchTiles of one
\* kind aborts a request of the other kind.
C37_FetchesDoNotCancel ==
    [][\A f \in fetches : AbortedNow(f) => KindsCalled \subseteq {f.kind}]_vars

\* A failed patch whose corrective fetch returned without throwing has
\* installed the backend's snapshot, when the backend has the tile.
FailedPatchResynced ==
    \A q \in DOMAIN patches :
        (patches[q].out = "conflict" /\ patches[q].st = "fulfilled")
            => patches[q].resync # NoVersion

\* A viewport fetch is aborted by viewport fetches only.
ViewNeverEmptiedByResync ==
    [][\A f \in fetches :
          (f.kind = "view" /\ AbortedNow(f)) => "fix" \notin KindsCalled]_vars


(***************************************************************************)
(* C38: an intent that throws                                              *)
(***************************************************************************)
\* the intents enqueued so far have all been taken off the queue, one of them
\* having thrown
DrainedAfterThrow == inputQueue = <<>> /\ inputFailed

\* C38: an intent that throws does not stop the input queue: once the queue
\* has drained, the writes made are those of the intents run one after the
\* other in the order they were enqueued, the throwing one leaving nothing,
\* and the caret is where that run leaves it.
C38_QueueSurvivesThrow ==
    DrainedAfterThrow => (writes = refWrites /\ caret = refCaret)


(***************************************************************************)
(* C39: one inertial loop                                                  *)
(***************************************************************************)
\* the step loops that go on at their next animation frame: the callbacks
\* waiting for a frame while isInertial.current is set
ActiveLoops == IF isInertial THEN rafs ELSE 0

\* C39: at most one inertial step loop is active at any time, also after a
\* fling was interrupted by a new drag and a second fling has started.
C39_OneInertialLoop == ActiveLoops <= 1

\* Two loops are not started by a drag shorter than one animation frame.
ShortDragOneLoop == (dragging = NoDrag /\ now < frameMs) => ActiveLoops <= 1


(***************************************************************************)
(* C40: the protected plaza                                                *)
(***************************************************************************)
\* the cell of character offset of the tile with key k
CellOf(k, offset) ==
    charOfTile(CoordOf(k)[1], CoordOf(k)[2], offset % TILE_W, offset \div TILE_W)

\* the cells of the plaza, written out from PROTECT
InPlaza(cx, cy) == cx >= -10 /\ cx <= 24 /\ cy >= -10 /\ cy <= 5

====
